---- MODULE Spec2Model ----
(***************************************************************************)
(* Route-depot assignment model (src/model/assign_lp.py).                  *)
(*                                                                         *)
(* Units.  Costs (km, minutes) are integers in hundredths, the two-decimal *)
(* grid on which features/cost_matrix.py writes them and on which          *)
(* _add_overflow_patio rounds.  A non-finite float is the value Inf.       *)
(* Bus counts are integers in units of 1/XDen: an Integer variable takes   *)
(* multiples of XDen only, a Continuous one any grid value.  Rationals     *)
(* given on the command line (scale factor, penalty factor) are pairs      *)
(* <<numerator, denominator>>.  An Optional value is a set: {} is None,    *)
(* {v} is the value v.  A dict is a function; a missing key is a value     *)
(* outside its DOMAIN.                                                     *)
(***************************************************************************)
EXTENDS Integers, Sequences, FiniteSets, TLC

\* ------------------------------------------------------------------ bounds
XDen == 2
MaxDemand == 2
MaxCap == 2
NRutasCov == 11

\* --------------------------------------------------------- program constants
VELOCIDAD_PROMEDIO == 20
CAPACIDAD_PATIO_DEFAULT == 15
OVERFLOW_CAP == 1000000000
PREVIEW_MAX == 10
Inf == 100000000
overflow_id == "overflow"

\* ------------------------------------------------------------------ helpers
None == {}

Some(v) == {v}

Get(o) == CHOOSE v \in o : TRUE

EmptyDict == <<>>

Range(s) == {s[i] : i \in DOMAIN s}

Min2(a, b) == IF a <= b THEN a ELSE b

Max2(a, b) == IF a >= b THEN a ELSE b

RECURSIVE SumFn(_, _)
SumFn(f, S) ==
    IF S = {} THEN 0
    ELSE LET s == CHOOSE e \in S : TRUE IN f[s] + SumFn(f, S \ {s})

MaxSet(S) == CHOOSE m \in S : \A e \in S : e <= m

MinSet(S) == CHOOSE m \in S : \A e \in S : m <= e

\* [v for v in s if v in S], order kept
RECURSIVE FilterSeq(_, _)
FilterSeq(s, S) ==
    IF s = <<>> THEN <<>>
    ELSE IF Head(s) \in S THEN <<Head(s)>> \o FilterSeq(Tail(s), S)
         ELSE FilterSeq(Tail(s), S)

\* s[:n]
Prefix(s, n) == SubSeq(s, 1, Min2(n, Len(s)))

\* dict.get(k, {}) on a dict of dicts
GetRow(tabla, p) == IF p \in DOMAIN tabla THEN tabla[p] ELSE EmptyDict

\* math.isfinite
IsFinite(c) == c < Inf

\* mutant: halves are rounded up
RedondeoMitadArriba(n, d) == (2 * n + d) \div (2 * d)

\* Python 3 round(n/d): nearest integer, ties to the even neighbour (d > 0)
PyRound(n, d) ==
    LET q == n \div d
        r == n % d
    IN  IF 2 * r < d THEN q
        ELSE IF 2 * r > d THEN q + 1
        ELSE IF q % 2 = 0 THEN q ELSE q + 1

\* ------------------------------------------------ ModeloAsignacionLP.__init__
\* str.lower on the solver names used here
Lower(name) == IF name = "CBC" THEN "cbc" ELSE name

\* kmax is kept only when it is a positive number; capacity_override or {}
Constructor(args) ==
    [objetivo            |-> args.objetivo,
     relax               |-> args.relax,
     cap_multiplier      |-> args.cap_multiplier,
     capacity_override   |-> IF args.capacity_override = None THEN EmptyDict
                             ELSE Get(args.capacity_override),
     overflow_penalty_km |-> args.overflow_penalty_km,
     kmax                |-> IF args.kmax # None /\ Get(args.kmax) > 0
                             THEN args.kmax ELSE None,
     max_distance_km     |-> args.max_distance_km,
     lp_solver           |-> Lower(args.lp_solver)]

\* exceptions: what is raised and the values its message is formatted from
NoError == [tipo |-> "none", causa |-> "none", rutas |-> <<>>, pvr |-> 0, cap |-> 0]

ValueError(causa, rutas, pvr, cap) ==
    [tipo |-> "ValueError", causa |-> causa, rutas |-> rutas, pvr |-> pvr, cap |-> cap]

RuntimeError(causa) ==
    [tipo |-> "RuntimeError", causa |-> causa, rutas |-> <<>>, pvr |-> 0, cap |-> 0]

\* --------------------------------------------------------------- cargar_datos
\* mutant: the override is not looked up
ScaledCapsSinOverride(cfg, raw_caps) ==
    [patio \in DOMAIN raw_caps |->
        Max2(0, PyRound(raw_caps[patio] * cfg.cap_multiplier[1], cfg.cap_multiplier[2]))]

\* lines 70-78: override value if the depot has one, else the rounded scaled
\* base capacity; never below 0.  Only depots of the capacity table get one.
ScaledCaps(cfg, raw_caps) ==
    [patio \in DOMAIN raw_caps |->
        Max2(0, IF patio \in DOMAIN cfg.capacity_override
                THEN cfg.capacity_override[patio]
                ELSE PyRound(raw_caps[patio] * cfg.cap_multiplier[1],
                             cfg.cap_multiplier[2]))]

\* costos_ruta of _add_overflow_patio: the distance entries of a route, as a set
CostosRuta(distancias, patios, ruta) ==
    {distancias[p][ruta] : p \in {q \in Range(patios) : ruta \in DOMAIN distancias[q]}}

\* round(penalty_cost, 2) with penalty_cost = overflow_penalty_km * max_cost
OverflowCost(f, max_cost) ==
    IF IsFinite(max_cost) THEN PyRound(f[1] * max_cost, f[2]) ELSE Inf

\* mutant: the time of the overflow depot is its distance cost, unconverted
OverflowTimeSinVelocidad(f, max_cost) == OverflowCost(f, max_cost)

\* round(penalty_time, 2) with penalty_time = penalty_cost / VELOCIDAD_PROMEDIO * 60
OverflowTime(f, max_cost) ==
    IF ~IsFinite(max_cost) THEN Inf
    ELSE IF VELOCIDAD_PROMEDIO > 0
         THEN PyRound(f[1] * max_cost * 60, f[2] * VELOCIDAD_PROMEDIO)
         ELSE PyRound(f[1] * max_cost, f[2])

\* _add_overflow_patio applied to the fields loaded so far (s); the result
\* carries the exception raised for the first route without a distance entry
AddOverflowPatio(cfg, s) ==
    IF cfg.overflow_penalty_km = None THEN [s EXCEPT !.error = NoError]
    ELSE IF overflow_id \in DOMAIN s.distancias THEN [s EXCEPT !.error = NoError]
    ELSE LET f == Get(cfg.overflow_penalty_km)
             sin == FilterSeq(s.rutas,
                        {r \in Range(s.rutas) : CostosRuta(s.distancias, s.patios, r) = {}})
             m(r) == MaxSet(CostosRuta(s.distancias, s.patios, r))
         IN  IF sin # <<>>
             THEN [s EXCEPT !.error = ValueError("overflow", <<Head(sin)>>, 0, 0)]
             ELSE [s EXCEPT
                    !.distancias =
                        (overflow_id :> [r \in Range(s.rutas) |-> OverflowCost(f, m(r))])
                        @@ s.distancias,
                    !.tiempos =
                        (overflow_id :> [r \in Range(s.rutas) |-> OverflowTime(f, m(r))])
                        @@ s.tiempos,
                    !.capacidades = (overflow_id :> OVERFLOW_CAP) @@ s.capacidades,
                    !.patios = Append(s.patios, overflow_id),
                    !.error = NoError]

\* mutant: the distance threshold is not applied
CompatibleSinUmbral(cfg, distancias, tiempos, r, p) ==
    LET costos == IF cfg.objetivo = "distancia" THEN distancias ELSE tiempos
        fila   == GetRow(costos, p)
    IN  IF r \in DOMAIN fila /\ IsFinite(fila[r]) THEN 1 ELSE 0

\* one cell of _build_compatibility_matrix (lines 116-128)
Compatible(cfg, distancias, tiempos, r, p) ==
    LET costos == IF cfg.objetivo = "distancia" THEN distancias ELSE tiempos
        fila   == GetRow(costos, p)
    IN  IF r \notin DOMAIN fila THEN 0
        ELSE IF ~IsFinite(fila[r]) THEN 0
        ELSE IF cfg.max_distance_km # None /\ cfg.objetivo = "distancia"
                /\ (r \notin DOMAIN GetRow(distancias, p)
                    \/ GetRow(distancias, p)[r] > Get(cfg.max_distance_km))
             THEN 0
        ELSE 1

BuildCompatibilityMatrix(cfg, s) ==
    [par \in Range(s.rutas) \X Range(s.patios) |->
        Compatible(cfg, s.distancias, s.tiempos, par[1], par[2])]

\* self.A.get((r, p), 0)
AGet(A, r, p) == IF <<r, p>> \in DOMAIN A THEN A[<<r, p>>] ELSE 0

\* rutas_sin_cobertura (line 89)
RutasSinCobertura(rutas, patios, A) ==
    FilterSeq(rutas, {r \in Range(rutas) : \A p \in Range(patios) : AGet(A, r, p) = 0})

\* mutant: the message of the coverage error lists every route
CoberturaCompleta(sin) == sin

\* the message of the coverage error lists rutas_sin_cobertura[:10]
CoberturaPreview(sin) == Prefix(sin, PREVIEW_MAX)

\* mutant: the capacity check does not look at the overflow request
CapacidadInsuficienteSiempre(cfg, total_pvr, cap_total_base) == total_pvr > cap_total_base

\* line 102: the capacity check is skipped when overflow is requested
CapacidadInsuficiente(cfg, total_pvr, cap_total_base) ==
    cfg.overflow_penalty_km = None /\ total_pvr > cap_total_base

\* the whole of cargar_datos: the fields of the instance when it returns or
\* raises, and the exception (NoError when it returns)
CargarDatosDe(cfg, arch) ==
    LET scaled_caps == ScaledCaps(cfg, arch.capacidades)
        s0 == [distancias     |-> arch.matriz_distancias,
               tiempos        |-> arch.matriz_tiempos,
               pvr            |-> arch.pvr,
               capacidades    |-> scaled_caps,
               cap_total_base |-> SumFn(scaled_caps, DOMAIN scaled_caps),
               patios         |-> arch.patios_keys,
               rutas          |-> arch.geo_codes,
               A              |-> EmptyDict,
               cap_total      |-> 0,
               total_pvr      |-> 0,
               cap_deficit    |-> 0,
               error          |-> NoError]
        s1 == AddOverflowPatio(cfg, s0)
        A1 == BuildCompatibilityMatrix(cfg, s1)
        sin == RutasSinCobertura(s1.rutas, s1.patios, A1)
        rutas2 == FilterSeq(s1.rutas,
                     {r \in Range(s1.rutas) : \E p \in Range(s1.patios) : AGet(A1, r, p) = 1})
        total == SumFn(s1.pvr, Range(rutas2))
        s3 == [s1 EXCEPT !.A = A1, !.rutas = rutas2,
                         !.cap_total = SumFn(s1.capacidades, DOMAIN s1.capacidades),
                         !.total_pvr = total,
                         !.cap_deficit = Max2(0, total - s1.cap_total_base)]
    IN  IF s1.error # NoError THEN s1
        ELSE IF sin # <<>>
             THEN [s1 EXCEPT !.A = A1,
                             !.error = ValueError("cobertura", CoberturaPreview(sin), 0, 0)]
        ELSE IF CapacidadInsuficiente(cfg, total, s1.cap_total_base)
             THEN [s3 EXCEPT !.error = ValueError("capacidad", <<>>, total, s1.cap_total_base)]
        ELSE s3

\* ----------------------------------------------------------- construir_modelo
\* The LpProblem as data: for each constraint family, the variables summed
\* and the right-hand side.

\* [(r, p) for r in rutas for p in patios], the insertion order of self.x
RECURSIVE XKeys(_, _)
XKeys(rutas, patios) ==
    IF rutas = <<>> THEN <<>>
    ELSE [i \in 1..Len(patios) |-> <<Head(rutas), patios[i]>>] \o XKeys(Tail(rutas), patios)

\* mutant: the variables are continuous in either mode
VarCatContinuo(cfg) == "Continuous"

\* line 136
VarCat(cfg) == IF cfg.relax THEN "Continuous" ELSE "Integer"

\* lines 152-156: costos[p][r] on the compatible pairs
Objetivo(cfg, s) ==
    LET costos == IF cfg.objetivo = "distancia" THEN s.distancias ELSE s.tiempos
    IN  [par \in {q \in Range(s.rutas) \X Range(s.patios) : AGet(s.A, q[1], q[2]) = 1} |->
            costos[par[2]][par[1]]]

\* lines 159-163: sum over the compatible depots == int(pvr[r])
DemandaRuta(s) ==
    [r \in Range(s.rutas) |->
        [vars |-> {p \in Range(s.patios) : AGet(s.A, r, p) = 1}, rhs |-> s.pvr[r]]]

\* mutant: the capacity table is not consulted
CapacidadDefault(s, p) == CAPACIDAD_PATIO_DEFAULT

\* line 167: capacidades.get(p, Config.CAPACIDAD_PATIO_DEFAULT)
Capacidad(s, p) ==
    IF p \in DOMAIN s.capacidades THEN s.capacidades[p] ELSE CAPACIDAD_PATIO_DEFAULT

\* lines 166-171: sum over the compatible routes <= capacidad
CapacidadPatio(s) ==
    [p \in Range(s.patios) |->
        [vars |-> {r \in Range(s.rutas) : AGet(s.A, r, p) = 1}, rhs |-> Capacidad(s, p)]]

\* mutant: no equality is added for the incompatible pairs
CompatibilidadVacia(s) == {}

\* lines 176-178: x[r,p] == 0 for every pair with A[r,p] = 0
Compatibilidad(s) ==
    {par \in Range(s.rutas) \X Range(s.patios) : AGet(s.A, par[1], par[2]) = 0}

\* lines 179-181: x[r,p] <= int(pvr[r]) * A[r,p] on the other pairs
LimiteCompat(s) ==
    [par \in {q \in Range(s.rutas) \X Range(s.patios) : AGet(s.A, q[1], q[2]) # 0} |->
        s.pvr[par[1]] * s.A[par]]

\* mutant: the limit of a route is one depot more than kmax
KMaxRutaHolgado(cfg, s) ==
    IF cfg.kmax = None THEN EmptyDict
    ELSE [r \in Range(s.rutas) |->
            [vars |-> {p \in Range(s.patios) : AGet(s.A, r, p) = 1}, rhs |-> Get(cfg.kmax) + 1]]

\* lines 186-190: sum of z over the compatible depots <= kmax
KMaxRuta(cfg, s) ==
    IF cfg.kmax = None THEN EmptyDict
    ELSE [r \in Range(s.rutas) |->
            [vars |-> {p \in Range(s.patios) : AGet(s.A, r, p) = 1}, rhs |-> Get(cfg.kmax)]]

\* lines 192-198: x[r,p] <= int(pvr[r]) * z[r,p] on the compatible pairs
ZBinding(cfg, s) ==
    IF cfg.kmax = None THEN EmptyDict
    ELSE [par \in {q \in Range(s.rutas) \X Range(s.patios) : AGet(s.A, q[1], q[2]) = 1} |->
            s.pvr[par[1]]]

NoModelo ==
    [var_cat |-> "none", rutas |-> <<>>, patios |-> <<>>, x_keys |-> <<>>, z_keys |-> {},
     objective |-> EmptyDict, Demanda_Ruta |-> EmptyDict, Capacidad_Patio |-> EmptyDict,
     Compatibilidad |-> {}, Limite_Compat |-> EmptyDict, KMax_Ruta |-> EmptyDict,
     Z_Binding |-> EmptyDict]

ConstruirModeloDe(cfg, s) ==
    [var_cat         |-> VarCat(cfg),
     rutas           |-> s.rutas,
     patios          |-> s.patios,
     x_keys          |-> XKeys(s.rutas, s.patios),
     z_keys          |-> IF cfg.kmax = None THEN {} ELSE Range(s.rutas) \X Range(s.patios),
     objective       |-> Objetivo(cfg, s),
     Demanda_Ruta    |-> DemandaRuta(s),
     Capacidad_Patio |-> CapacidadPatio(s),
     Compatibilidad  |-> Compatibilidad(s),
     Limite_Compat   |-> LimiteCompat(s),
     KMax_Ruta       |-> KMaxRuta(cfg, s),
     Z_Binding       |-> ZBinding(cfg, s)]

\* ------------------------------------------------------------------- resolver
\* What modelo.solve(solver) can return on the LpProblem built above.  The
\* solver is external: on a feasible problem it returns some optimal point.

\* the grid values a variable of route r is searched over; an Integer variable
\* takes whole buses only (lowBound=0, cat=var_cat)
Valores(modelo, r) ==
    {v \in 0..(modelo.Demanda_Ruta[r].rhs * XDen) :
        modelo.var_cat = "Integer" => v % XDen = 0}

\* the rows g over the variables P with values in V and sum total: the
\* solutions of one equality  sum(x[r,p] for p in P) == total
RECURSIVE Repartos(_, _, _)
Repartos(P, V, total) ==
    IF P = {} THEN (IF total = 0 THEN {EmptyDict} ELSE {})
    ELSE LET p == CHOOSE q \in P : TRUE
         IN  UNION {{(p :> v) @@ g : g \in Repartos(P \ {p}, V, total - v)} :
                        v \in {w \in V : w <= total}}

\* the constraints on the variables x[r, .] of one route; f is that row
CumpleDemanda(modelo, r) ==
    LET d == modelo.Demanda_Ruta[r]
        libres == Range(modelo.patios) \ d.vars
    IN  {g @@ h : g \in Repartos(d.vars, Valores(modelo, r), d.rhs * XDen),
                  h \in [libres -> Valores(modelo, r)]}

CumpleCompatibilidad(modelo, r, f) ==
    \A p \in DOMAIN f : <<r, p>> \in modelo.Compatibilidad => f[p] = 0

CumpleLimite(modelo, r, f) ==
    \A p \in DOMAIN f :
        <<r, p>> \in DOMAIN modelo.Limite_Compat => f[p] <= modelo.Limite_Compat[<<r, p>>] * XDen

\* some Binary z[r, .] satisfies KMax_Ruta and Z_Binding together with the row
CumpleKMax(modelo, r, f) ==
    modelo.z_keys # {} =>
        \E z \in [DOMAIN f -> {0, 1}] :
            /\ SumFn(z, modelo.KMax_Ruta[r].vars) <= modelo.KMax_Ruta[r].rhs
            /\ \A p \in DOMAIN f :
                 <<r, p>> \in DOMAIN modelo.Z_Binding =>
                     f[p] <= modelo.Z_Binding[<<r, p>>] * z[p] * XDen

Filas(modelo, r) ==
    {f \in CumpleDemanda(modelo, r) :
        /\ CumpleCompatibilidad(modelo, r, f)
        /\ CumpleLimite(modelo, r, f)
        /\ CumpleKMax(modelo, r, f)}

\* the capacity rows; x is indexed x[r][p]
CumpleCapacidad(modelo, x) ==
    \A p \in DOMAIN modelo.Capacidad_Patio :
        LET c == modelo.Capacidad_Patio[p]
            usado == SumFn([r \in c.vars |-> x[r][p]], c.vars)
        IN  (usado + XDen - 1) \div XDen <= c.rhs

\* every choice of one row per route
RECURSIVE Combinaciones(_, _)
Combinaciones(modelo, rs) ==
    IF rs = <<>> THEN {EmptyDict}
    ELSE {(Head(rs) :> f) @@ x : f \in Filas(modelo, Head(rs)),
                                 x \in Combinaciones(modelo, Tail(rs))}

Factibles(modelo) ==
    {x \in Combinaciones(modelo, modelo.rutas) : CumpleCapacidad(modelo, x)}

\* value of the objective at x, in hundredths and in units of 1/XDen
ValorObjetivo(modelo, x) ==
    SumFn([par \in DOMAIN modelo.objective |-> modelo.objective[par] * x[par[1]][par[2]]],
          DOMAIN modelo.objective)

\* mutant: the solver stops at any feasible point
OptimosCualquiera(modelo) == Factibles(modelo)

Optimos(modelo) ==
    LET F == {<<x, ValorObjetivo(modelo, x)>> : x \in Factibles(modelo)}
        m == MinSet({e[2] : e \in F})
    IN  IF F = {} THEN {} ELSE {e[1] : e \in {d \in F : d[2] = m}}

NoSol == [status |-> "none", x |-> EmptyDict, objective |-> 0]

\* var.value() for every key of self.x
Plano(modelo, x) == [par \in Range(modelo.x_keys) |-> x[par[1]][par[2]]]

\* a solve that ended with a status other than Optimal
SinOptimo(status) == [status |-> status, x |-> EmptyDict, objective |-> 0]

\* the outcomes of solve: Optimal with an optimal point, Infeasible, Not
\* Solved when the time limit of PULP_CBC_CMD stops the search first, or
\* Undefined when the solver's answer is not understood
Soluciones(modelo) ==
    LET O == Optimos(modelo)
    IN  IF O = {} THEN {SinOptimo("Infeasible"), SinOptimo("Undefined")}
        ELSE {[status |-> "Optimal", x |-> Plano(modelo, x),
               objective |-> ValorObjetivo(modelo, x)] : x \in O}
             \cup {SinOptimo("Not Solved"), SinOptimo("Undefined")}

\* mutant: a solve stopped by the time limit counts as success
ResolverOkLaxo(sol) == sol.status \in {"Optimal", "Not Solved"}

\* line 203: result == pulp.LpStatusOptimal
ResolverOk(sol) == sol.status = "Optimal"

\* ------------------------------------------------------------------- exportar
\* lines 206-213: the rows of asignaciones, in the order of self.x
RECURSIVE Asignaciones(_, _, _)
Asignaciones(s, keys, x) ==
    IF keys = <<>> THEN <<>>
    ELSE LET r == Head(keys)[1]
             p == Head(keys)[2]
             value == x[Head(keys)]
             resto == Asignaciones(s, Tail(keys), x)
         IN  IF value > 0 /\ AGet(s.A, r, p) = 1 /\ r \in DOMAIN GetRow(s.distancias, p)
             THEN <<[geo_code |-> r, patio_id |-> p, buses |-> value,
                     costo |-> s.distancias[p][r]]>> \o resto
             ELSE resto

\* mutant: the unit costs are summed without the counts
CostoDeSinBuses(df, P) ==
    LET I == {i \in DOMAIN df : df[i].patio_id \in P}
    IN  SumFn([i \in I |-> Min2(Inf, df[i].costo)], I)

\* (df["buses"] * df["costo"]).sum() over the rows of a depot set
RECURSIVE CostoDe(_, _)
CostoDe(df, P) ==
    IF df = <<>> THEN 0
    ELSE LET resto == CostoDe(Tail(df), P)
         IN  IF Head(df).patio_id \notin P THEN resto
             ELSE IF ~IsFinite(Head(df).costo) \/ ~IsFinite(resto) THEN Inf
             ELSE Head(df).buses * Head(df).costo + resto

\* df["buses"].sum() over the rows selected by a field value
RECURSIVE BusesDe(_, _, _)
BusesDe(df, campo, v) ==
    IF df = <<>> THEN 0
    ELSE (IF Head(df)[campo] = v THEN Head(df).buses ELSE 0) + BusesDe(Tail(df), campo, v)

\* lines 244-270: which of the two diagnostic files were written and whether
\* the extraction raised
SinDiagnostico == [duales |-> FALSE, reduced_costs |-> FALSE, fallo |-> FALSE]

NoOut == [resultados_df |-> <<>>, resumen_patios_df |-> EmptyDict, total_cost |-> 0,
          overflow_buses |-> 0, overflow_cost |-> 0, diagnostico |-> SinDiagnostico]

ExportarDe(s, modelo, sol) ==
    LET df == Asignaciones(s, modelo.x_keys, sol.x)
        P  == {df[i].patio_id : i \in DOMAIN df}
    IN  [resultados_df     |-> df,
         resumen_patios_df |-> [p \in P |-> BusesDe(df, "patio_id", p)],
         total_cost        |-> CostoDe(df, P),
         overflow_buses    |-> BusesDe(df, "patio_id", overflow_id),
         overflow_cost     |-> CostoDe(df, {overflow_id}),
         diagnostico       |-> SinDiagnostico]

\* lines 245-268: only a relaxed run extracts duals and reduced costs; a file
\* is written when the solver gave values; an exception can come before the
\* first file or between the two
Diagnosticos(cfg) ==
    IF ~cfg.relax THEN {SinDiagnostico}
    ELSE {d \in [duales : BOOLEAN, reduced_costs : BOOLEAN, fallo : BOOLEAN] :
             d.fallo => ~d.reduced_costs}

\* mutant: the exception of the extraction leaves exportar
ExcepcionDeDiagnosticoPropagada(d) ==
    IF d.fallo
    THEN [tipo |-> "Exception", causa |-> "diagnostico", rutas |-> <<>>, pvr |-> 0, cap |-> 0]
    ELSE NoError

\* lines 269-270: except Exception: pass
ExcepcionDeDiagnostico(d) == NoError

\* ------------------------------------------------------------- _create_solver
\* mutant: the solver is handed over without any verification
CreateSolverSinVerificar(cfg, disponible) == NoError

\* disponible is what solver.available() answers in the environment
CreateSolver(cfg, disponible) ==
    IF cfg.lp_solver \notin {"cbc", "glpk", "clp"}
    THEN ValueError("solver_no_soportado", <<>>, 0, 0)
    ELSE IF ~disponible THEN RuntimeError("solver_no_disponible")
    ELSE NoError

\* -------------------------------------------- ModeloAsignacionMIP (assign_mip.py)
\* exceptions other than ValueError and RuntimeError
OtraExcepcion(tipo, causa) ==
    [tipo |-> tipo, causa |-> causa, rutas |-> <<>>, pvr |-> 0, cap |-> 0]

\* cargar_datos: the capacities are taken as they are, the depots are the keys
\* of the distance table and every route must have a distance at every depot
MipCargarDatosDe(arch) ==
    LET completas == {r \in Range(arch.geo_codes) :
                         \A p \in Range(arch.patios_keys) :
                             r \in DOMAIN arch.matriz_distancias[p]}
        missing == FilterSeq(arch.geo_codes, Range(arch.geo_codes) \ completas)
    IN  [distancias  |-> arch.matriz_distancias,
         tiempos     |-> arch.matriz_tiempos,
         pvr         |-> arch.pvr,
         capacidades |-> arch.capacidades,
         patios      |-> arch.patios_keys,
         rutas       |-> FilterSeq(arch.geo_codes, completas),
         error       |-> IF missing # <<>>
                         THEN ValueError("sin_costos", Prefix(missing, PREVIEW_MAX), 0, 0)
                         ELSE NoError]

\* [(r, i) for r in rutas for i in range(int(pvr[r]))]
RECURSIVE MipBuses(_, _)
MipBuses(rutas, pvr) ==
    IF rutas = <<>> THEN <<>>
    ELSE [i \in 1..pvr[Head(rutas)] |-> <<Head(rutas), i - 1>>] \o MipBuses(Tail(rutas), pvr)

\* the keys of self.x, in insertion order
RECURSIVE MipXKeys(_, _)
MipXKeys(buses, patios) ==
    IF buses = <<>> THEN <<>>
    ELSE [i \in 1..Len(patios) |-> <<Head(buses)[1], Head(buses)[2], patios[i]>>]
         \o MipXKeys(Tail(buses), patios)

\* costos[p][r] of line 43 raises KeyError when the table of the objective
\* lacks the pair
MipFaltaCosto(cfg, s) ==
    LET costos == IF cfg.objetivo = "distancia" THEN s.distancias ELSE s.tiempos
    IN  /\ MipBuses(s.rutas, s.pvr) # <<>>
        /\ \E r \in Range(s.rutas), p \in Range(s.patios) :
              p \notin DOMAIN costos \/ r \notin DOMAIN costos[p]

\* construir_modelo: one Binary per (route, unit, depot); every unit at exactly
\* one depot; per depot the units are at most int(capacidades.get(p, default))
MipConstruirModeloDe(cfg, s) ==
    LET costos == IF cfg.objetivo = "distancia" THEN s.distancias ELSE s.tiempos
        buses == MipBuses(s.rutas, s.pvr)
    IN  [buses      |-> buses,
         patios     |-> s.patios,
         x_keys     |-> MipXKeys(buses, s.patios),
         objective  |-> [k \in Range(MipXKeys(buses, s.patios)) |-> costos[k[3]][k[1]]],
         Asignacion |-> [u \in Range(buses) |-> [vars |-> Range(s.patios), rhs |-> 1]],
         Capacidad  |-> [q \in Range(s.patios) |->
                            [vars |-> Range(buses),
                             rhs  |-> IF q \in DOMAIN s.capacidades THEN s.capacidades[q]
                                      ELSE CAPACIDAD_PATIO_DEFAULT]]]

\* mutant: the capacity rows are not imposed
MipRepartosSinCapacidad(modelo) == [Range(modelo.buses) -> Range(modelo.patios)]

\* the 0/1 points with one depot per unit, as the depot of each unit
MipRepartos(modelo) ==
    {g \in [Range(modelo.buses) -> Range(modelo.patios)] :
        \A q \in DOMAIN modelo.Capacidad :
            Cardinality({u \in modelo.Capacidad[q].vars : g[u] = q}) <= modelo.Capacidad[q].rhs}

MipValorObjetivo(modelo, g) ==
    SumFn([u \in Range(modelo.buses) |-> modelo.objective[<<u[1], u[2], g[u]>>]],
          Range(modelo.buses))

\* the values of self.x at the point g
MipPlano(modelo, g) ==
    [k \in Range(modelo.x_keys) |-> IF g[<<k[1], k[2]>>] = k[3] THEN 1 ELSE 0]

\* what modelo.solve can return; a non-finite coefficient leaves the solver
\* without a problem it can read
MipSoluciones(modelo) ==
    IF \E k \in DOMAIN modelo.objective : ~IsFinite(modelo.objective[k])
    THEN {SinOptimo("Not Solved"), SinOptimo("Undefined")}
    ELSE LET F == {<<g, MipValorObjetivo(modelo, g)>> : g \in MipRepartos(modelo)}
             m == MinSet({e[2] : e \in F})
         IN  IF F = {} THEN {SinOptimo("Infeasible"), SinOptimo("Undefined")}
             ELSE {[status |-> "Optimal", x |-> MipPlano(modelo, e[1]), objective |-> e[2]] :
                      e \in {d \in F : d[2] = m}}
                  \cup {SinOptimo("Not Solved"), SinOptimo("Undefined")}

\* exportar: the rows of asignaciones_mip.csv
RECURSIVE MipAsignaciones(_, _)
MipAsignaciones(keys, x) ==
    IF keys = <<>> THEN <<>>
    ELSE (IF x[Head(keys)] = 1
          THEN <<[geo_code |-> Head(keys)[1], bus |-> Head(keys)[2], patio_id |-> Head(keys)[3]]>>
          ELSE <<>>)
         \o MipAsignaciones(Tail(keys), x)

\* ------------------------------------------------------------ inputs of a run
\* the fixtures of tests/test_lp_small.py and tests/test_compat.py
FixtureLpSmall ==
    [matriz_distancias |-> ("P1" :> ("R1" :> 1000 @@ "R2" :> 1200)
                            @@ "P2" :> ("R1" :> 1500 @@ "R2" :> 800)),
     matriz_tiempos    |-> ("P1" :> ("R1" :> 3000 @@ "R2" :> 3600)
                            @@ "P2" :> ("R1" :> 4500 @@ "R2" :> 2400)),
     patios_keys       |-> <<"P1", "P2">>,
     geo_codes         |-> <<"R1", "R2">>,
     pvr               |-> ("R1" :> 5 @@ "R2" :> 3),
     capacidades       |-> ("P1" :> 4 @@ "P2" :> 6)]

FixtureIncompatible ==
    [matriz_distancias |-> ("P1" :> ("R1" :> 1000)
                            @@ "P2" :> ("R1" :> 1500 @@ "R2" :> 800)),
     matriz_tiempos    |-> ("P1" :> ("R1" :> 3000)
                            @@ "P2" :> ("R1" :> 4500 @@ "R2" :> 2400)),
     patios_keys       |-> <<"P1", "P2">>,
     geo_codes         |-> <<"R1", "R2">>,
     pvr               |-> ("R1" :> 5 @@ "R2" :> 3),
     capacidades       |-> ("P1" :> 10 @@ "P2" :> 10)]

FixtureSinCobertura ==
    [matriz_distancias |-> ("P1" :> ("R1" :> 1000) @@ "P2" :> ("R1" :> 1500)),
     matriz_tiempos    |-> ("P1" :> ("R1" :> 3000) @@ "P2" :> ("R1" :> 4500)),
     patios_keys       |-> <<"P1", "P2">>,
     geo_codes         |-> <<"R1", "R3">>,
     pvr               |-> ("R1" :> 5 @@ "R3" :> 3),
     capacidades       |-> ("P1" :> 10 @@ "P2" :> 10)]

Fixtures == {FixtureLpSmall, FixtureIncompatible, FixtureSinCobertura}

\* constructor arguments tried on the fixtures
ArgsFixtures ==
    [objetivo            : {"distancia", "tiempo"},
     relax               : {FALSE},
     cap_multiplier      : {<<1, 2>>, <<1, 1>>, <<3, 2>>},
     capacity_override   : {None, Some("P1" :> 5), Some("P2" :> (0 - 1))},
     overflow_penalty_km : {None, Some(<<1, 2>>), Some(<<3, 2>>)},
     kmax                : {None, Some(0), Some(1)},
     max_distance_km     : {None, Some(1200)},
     lp_solver           : {"cbc"}]
    \cup
    [objetivo            : {"distancia", "tiempo"},
     relax               : {TRUE},
     cap_multiplier      : {<<1, 2>>, <<1, 1>>},
     capacity_override   : {None},
     overflow_penalty_km : {None, Some(<<3, 2>>)},
     kmax                : {None, Some(1)},
     max_distance_km     : {None},
     lp_solver           : {"cbc"}]

\* small general inputs: two routes, two depots in the cost tables.  An entry
\* of a cost table is a pair of Optionals <<distance, time>>
Ambos10 == <<Some(1000), Some(3000)>>
Ambos15 == <<Some(1500), Some(4500)>>
SinEntrada == <<None, None>>
SoloTiempo == <<None, Some(3000)>>
SoloDistancia == <<Some(1000), None>>
DistInfinita == <<Some(Inf), Some(3000)>>
TiempoPropio == <<Some(1000), Some(2000)>>

Entradas ==
    [p1r1 : {Ambos10, Ambos15, SinEntrada, SoloTiempo, DistInfinita, TiempoPropio},
     p1r2 : {Ambos10, SinEntrada},
     p2r1 : {Ambos10, SinEntrada},
     p2r2 : {Ambos10, SoloTiempo, SoloDistancia}]

\* one row of a cost table (i = 1 distance, i = 2 time) from the entries of a depot
FilaDe(e1, e2, i) ==
    [r \in {q \in {"R1", "R2"} : (IF q = "R1" THEN e1 ELSE e2)[i] # None} |->
        Get((IF r = "R1" THEN e1 ELSE e2)[i])]

\* capacity tables: both depots, the second depot missing, a depot that is in
\* no cost table
TablasCapacidad ==
    {("P1" :> a @@ "P2" :> b) : a \in 0..MaxCap, b \in {0, MaxCap}}
    \cup {("P1" :> MaxCap)}
    \cup {("P1" :> 1 @@ "P2" :> 1 @@ "P3" :> MaxCap)}

ArchivosGen ==
    {[matriz_distancias |-> ("P1" :> FilaDe(e.p1r1, e.p1r2, 1) @@ "P2" :> FilaDe(e.p2r1, e.p2r2, 1)),
      matriz_tiempos    |-> ("P1" :> FilaDe(e.p1r1, e.p1r2, 2) @@ "P2" :> FilaDe(e.p2r1, e.p2r2, 2)),
      patios_keys       |-> <<"P1", "P2">>,
      geo_codes         |-> <<"R1", "R2">>,
      pvr               |-> ("R1" :> d1 @@ "R2" :> d2),
      capacidades       |-> caps] :
        e \in Entradas, d1 \in 1..MaxDemand, d2 \in {1, MaxDemand}, caps \in TablasCapacidad}

ArgsGen ==
    {a \in [objetivo            : {"distancia", "tiempo"},
            relax               : BOOLEAN,
            cap_multiplier      : {<<1, 1>>},
            capacity_override   : {None},
            overflow_penalty_km : {None, Some(<<4, 3>>)},
            kmax                : {None},
            max_distance_km     : {None},
            lp_solver           : {"cbc"}] :
        a.relax => a.objetivo = "distancia"}

\* solver names, on the first fixture
ArgsSolver ==
    [objetivo            : {"distancia"},
     relax               : {FALSE},
     cap_multiplier      : {<<1, 1>>},
     capacity_override   : {None},
     overflow_penalty_km : {None},
     kmax                : {None},
     max_distance_km     : {None},
     lp_solver           : {"CBC", "glpk", "clp", "gurobi"}]

\* many routes at one depot, each with or without a cost entry
NombresRuta ==
    <<"R01", "R02", "R03", "R04", "R05", "R06", "R07", "R08", "R09", "R10", "R11", "R12",
      "R13", "R14">>

ArchivosCov ==
    LET rutas == SubSeq(NombresRuta, 1, NRutasCov)
    IN  {[matriz_distancias |-> ("P1" :> [r \in S |-> 1000]),
          matriz_tiempos    |-> ("P1" :> [r \in S |-> 3000]),
          patios_keys       |-> <<"P1">>,
          geo_codes         |-> rutas,
          pvr               |-> [r \in Range(rutas) |-> 1],
          capacidades       |-> ("P1" :> NRutasCov)] : S \in SUBSET Range(rutas)}

\* scale factors and overrides on capacity tables with odd entries
ArgsCap ==
    [objetivo            : {"distancia"},
     relax               : {FALSE},
     cap_multiplier      : {<<1, 2>>, <<3, 2>>, <<4, 5>>, <<0 - 1, 2>>},
     capacity_override   : {None, Some("P1" :> 5), Some("P2" :> (0 - 1)), Some("P9" :> 3)},
     overflow_penalty_km : {None, Some(<<3, 2>>)},
     kmax                : {None},
     max_distance_km     : {None},
     lp_solver           : {"cbc"}]

ArchivosCap ==
    {[FixtureLpSmall EXCEPT !.capacidades = ("P1" :> a @@ "P2" :> b)] :
        a \in {3, 5}, b \in {7, 10}}

ArgsDefault ==
    [objetivo |-> "distancia", relax |-> FALSE, cap_multiplier |-> <<1, 1>>,
     capacity_override |-> None, overflow_penalty_km |-> None, kmax |-> None,
     max_distance_km |-> None, lp_solver |-> "cbc"]

\* ------------------------------------------------------------- state machine
VARIABLES
    pc,        \* position in main(): "init", "loaded", "built", "solved", "exported", "error"
    cfg,       \* the constructor's fields of the ModeloAsignacionLP instance
    archivos,  \* the files under Config.DATA_PROCESSED
    self,      \* the fields cargar_datos assigns
    modelo,    \* self.modelo, the LpProblem
    sol,       \* the solver's status and the values of self.x
    out,       \* resultados_df, resumen_patios_df, total_cost
    error,     \* the exception that ended the run, NoError otherwise
    cli_args,  \* the argparse Namespace of a cli command, NoArgs without one
    exit_code, \* what the cli command returned, None while it runs
    sens,      \* the locals of cmd_sensitivity
    demo       \* generate_mip_demo.py: the dataset files and the runs of the script

vars == <<pc, cfg, archivos, self, modelo, sol, out, error, cli_args, exit_code, sens, demo>>

cliVars == <<cli_args, exit_code, sens, demo>>

NoDemo == [archivo |-> <<>>, top10 |-> <<>>, backup |-> <<>>, run |-> <<>>]

NoArgs == [command |-> "none"]

NoSens ==
    [stage |-> "none", scales |-> <<>>, i |-> 0, rows |-> <<>>, feasible_models |-> <<>>,
     sweep_csv |-> {}, base_scale |-> <<0, 1>>, base_objective |-> 0,
     base_capacidades |-> <<>>, base_patios |-> <<>>, j |-> 0, modelo |-> {}, shadow_rows |-> <<>>,
     shadow_csv |-> {}]

NoSelf ==
    [distancias |-> EmptyDict, tiempos |-> EmptyDict, pvr |-> EmptyDict,
     capacidades |-> EmptyDict, cap_total_base |-> 0, patios |-> <<>>, rutas |-> <<>>,
     A |-> EmptyDict, cap_total |-> 0, total_pvr |-> 0, cap_deficit |-> 0,
     error |-> NoError]

InitCon(args, arch) ==
    /\ pc = "init"
    /\ cfg = Constructor(args)
    /\ archivos = arch
    /\ self = NoSelf
    /\ modelo = NoModelo
    /\ sol = NoSol
    /\ out = NoOut
    /\ error = NoError
    /\ cli_args = NoArgs
    /\ exit_code = None
    /\ sens = NoSens
    /\ demo = NoDemo

InitFixtures == \E args \in ArgsFixtures, arch \in Fixtures : InitCon(args, arch)

InitGen == \E args \in ArgsGen, arch \in ArchivosGen : InitCon(args, arch)

InitSolver == \E args \in ArgsSolver : InitCon(args, FixtureLpSmall)

InitCov == \E arch \in ArchivosCov : InitCon(ArgsDefault, arch)

InitCap == \E args \in ArgsCap, arch \in ArchivosCap : InitCon(args, arch)

Init == InitFixtures \/ InitGen \/ InitSolver \/ InitCov \/ InitCap

\* modelo.cargar_datos(); an exception ends main()
CargarDatos ==
    /\ pc = "init"
    /\ LET s == CargarDatosDe(cfg, archivos)
       IN  /\ self' = s
           /\ error' = s.error
           /\ pc' = IF s.error = NoError THEN "loaded" ELSE "error"
    /\ UNCHANGED <<cfg, archivos, modelo, sol, out>>
    /\ UNCHANGED cliVars

\* modelo.construir_modelo()
ConstruirModelo ==
    /\ pc = "loaded"
    /\ modelo' = ConstruirModeloDe(cfg, self)
    /\ pc' = "built"
    /\ UNCHANGED <<cfg, archivos, self, sol, out, error>>
    /\ UNCHANGED cliVars

\* if not modelo.resolver(): raise RuntimeError (lines 334-335)
Resolver ==
    /\ pc = "built"
    /\ \E disponible \in BOOLEAN :
          LET e == CreateSolver(cfg, disponible)
          IN  IF e # NoError
              THEN /\ error' = e
                   /\ pc' = "error"
                   /\ sol' = sol
              ELSE \E s \in Soluciones(modelo) :
                   /\ sol' = s
                   /\ pc' = IF ResolverOk(s) THEN "solved" ELSE "error"
                   /\ error' = IF ResolverOk(s) THEN error ELSE RuntimeError("no_optimo")
    /\ UNCHANGED <<cfg, archivos, self, modelo, out>>
    /\ UNCHANGED cliVars

\* modelo.exportar()
Exportar ==
    /\ pc = "solved"
    /\ \E d \in Diagnosticos(cfg) :
          /\ out' = [ExportarDe(self, modelo, sol) EXCEPT !.diagnostico = d]
          /\ error' = ExcepcionDeDiagnostico(d)
          /\ pc' = IF ExcepcionDeDiagnostico(d) = NoError THEN "exported" ELSE "error"
    /\ UNCHANGED <<cfg, archivos, self, modelo, sol>>
    /\ UNCHANGED cliVars

Next == CargarDatos \/ ConstruirModelo \/ Resolver \/ Exportar

Spec == Init /\ [][Next]_vars

\* ------------------------------------------------------------ cli.cmd_solve
\* matriz_distancias.json is not under Config.DATA_PROCESSED
NoArchivos == [falta |-> "matriz_distancias.json"]

NoCfg == [objetivo |-> "none"]

\* the keyword arguments cmd_solve passes for each mode (lines 125-142)
CfgDeSolve(a) ==
    IF a.mode = "lp"
    THEN Constructor([objetivo |-> a.objective, relax |-> FALSE,
                      cap_multiplier |-> a.capacities_scale, capacity_override |-> None,
                      overflow_penalty_km |-> a.overflow_penalty_km, kmax |-> a.kmax,
                      max_distance_km |-> a.max_distance_km, lp_solver |-> "cbc"])
    ELSE IF a.mode = "lp_relax"
    THEN Constructor([objetivo |-> a.objective, relax |-> TRUE,
                      cap_multiplier |-> a.capacities_scale, capacity_override |-> None,
                      overflow_penalty_km |-> None, kmax |-> None,
                      max_distance_km |-> a.max_distance_km, lp_solver |-> "cbc"])
    ELSE [objetivo |-> a.objective]

\* the Namespaces of the solve sub-command tried on the fixtures
ArgsSolveFixtures ==
    [command             : {"solve"},
     mode                : {"lp", "lp_relax", "mip"},
     objective           : {"distancia", "tiempo"},
     capacities_scale    : {<<1, 1>>, <<1, 2>>},
     kmax                : {None, Some(1)},
     max_distance_km     : {None, Some(1200)},
     overflow_penalty_km : {None, Some(<<3, 2>>)}]

\* the Namespace with every option at its default but mode and objective
ArgsSolveGen ==
    [command             : {"solve"},
     mode                : {"lp", "lp_relax", "mip"},
     objective           : {"distancia", "tiempo"},
     capacities_scale    : {<<1, 1>>},
     kmax                : {None},
     max_distance_km     : {None},
     overflow_penalty_km : {None}]

ArchivosSolveGen ==
    {a \in ArchivosGen : a.pvr["R1"] = 1 /\ a.pvr["R2"] = MaxDemand}

InitCli(a, arch) ==
    /\ pc = "cmd"
    /\ cli_args = a
    /\ archivos = arch
    /\ cfg = NoCfg
    /\ self = NoSelf
    /\ modelo = NoModelo
    /\ sol = NoSol
    /\ out = NoOut
    /\ error = NoError
    /\ exit_code = None
    /\ sens = NoSens
    /\ demo = NoDemo

InitSolve ==
    \/ \E a \in ArgsSolveFixtures, arch \in Fixtures : InitCli(a, arch)
    \/ \E a \in ArgsSolveGen, arch \in ArchivosSolveGen \cup {NoArchivos} : InitCli(a, arch)

\* lines 121-125: without the cost matrix the command returns 1; otherwise the
\* model of the mode is constructed
CmdSolve ==
    /\ pc = "cmd"
    /\ exit_code = None
    /\ cli_args.command = "solve"
    /\ IF archivos = NoArchivos
       THEN /\ exit_code' = Some(1)
            /\ UNCHANGED <<pc, cfg>>
       ELSE /\ cfg' = CfgDeSolve(cli_args)
            /\ pc' = "init"
            /\ UNCHANGED exit_code
    /\ UNCHANGED <<archivos, self, modelo, sol, out, error, cli_args, demo, sens>>

\* assign_lp.main under cmd_solve
SolveLp ==
    /\ cli_args.command = "solve"
    /\ cli_args.mode \in {"lp", "lp_relax"}
    /\ (CargarDatos \/ ConstruirModelo \/ Resolver \/ Exportar)

EsMip == cli_args.command = "solve" /\ cli_args.mode = "mip"

\* assign_mip.main: modelo.cargar_datos()
MipCargarDatos ==
    /\ EsMip
    /\ pc = "init"
    /\ LET s == MipCargarDatosDe(archivos)
       IN  /\ self' = s
           /\ error' = s.error
           /\ pc' = IF s.error = NoError THEN "loaded" ELSE "error"
    /\ UNCHANGED <<cfg, archivos, modelo, sol, out>>
    /\ UNCHANGED cliVars

\* modelo.construir_modelo()
MipConstruirModelo ==
    /\ EsMip
    /\ pc = "loaded"
    /\ IF MipFaltaCosto(cfg, self)
       THEN /\ error' = OtraExcepcion("KeyError", "costo")
            /\ pc' = "error"
            /\ UNCHANGED modelo
       ELSE /\ modelo' = MipConstruirModeloDe(cfg, self)
            /\ pc' = "built"
            /\ UNCHANGED error
    /\ UNCHANGED <<cfg, archivos, self, sol, out>>
    /\ UNCHANGED cliVars

\* assign_mip.py line 53
MipResolverOk(s) == s.status = "Optimal"

\* if not modelo.resolver(): raise RuntimeError; PULP_CBC_CMD is used without
\* asking whether it is available
MipResolver ==
    /\ EsMip
    /\ pc = "built"
    /\ \E disponible \in BOOLEAN :
          IF ~disponible
          THEN /\ error' = OtraExcepcion("PulpSolverError", "solver_no_disponible")
               /\ pc' = "error"
               /\ sol' = sol
          ELSE \E s \in MipSoluciones(modelo) :
               /\ sol' = s
               /\ pc' = IF MipResolverOk(s) THEN "solved" ELSE "error"
               /\ error' = IF MipResolverOk(s) THEN error ELSE RuntimeError("no_optimo")
    /\ UNCHANGED <<cfg, archivos, self, modelo, out>>
    /\ UNCHANGED cliVars

\* modelo.exportar(): asignaciones_mip.csv
MipExportar ==
    /\ EsMip
    /\ pc = "solved"
    /\ out' = [NoOut EXCEPT !.resultados_df = MipAsignaciones(modelo.x_keys, sol.x)]
    /\ pc' = "exported"
    /\ UNCHANGED <<cfg, archivos, self, modelo, sol, error>>
    /\ UNCHANGED cliVars

\* mutant: the command returns 0 whatever happened
CodigoDeSalidaCero(p) == 0

\* lines 143-146: 1 after a ValueError or RuntimeError, 0 otherwise; an
\* exception of another type ends the process with status 1
CodigoDeSalida(p) == IF p = "exported" THEN 0 ELSE 1

CmdSolveReturn ==
    /\ cli_args.command = "solve"
    /\ pc \in {"exported", "error"}
    /\ exit_code = None
    /\ exit_code' = Some(CodigoDeSalida(pc))
    /\ UNCHANGED <<pc, cfg, archivos, self, modelo, sol, out, error, cli_args, demo, sens>>

NextSolve ==
    \/ CmdSolve
    \/ SolveLp
    \/ MipCargarDatos
    \/ MipConstruirModelo
    \/ MipResolver
    \/ MipExportar
    \/ CmdSolveReturn

SpecSolve == InitSolve /\ [][NextSolve]_vars

\* ------------------------------------------------------- cli.cmd_sensitivity
\* scale factors are <<numerator, denominator>> in lowest terms
RatMenor(a, b) == a[1] * b[2] < b[1] * a[2]

\* mutant: the smallest feasible scale is taken as baseline
MinEscala(S) == CHOOSE a \in S : \A b \in S : ~RatMenor(b, a)

\* max(feasible_models.keys())
MaxEscala(S) == CHOOSE a \in S : \A b \in S : ~RatMenor(a, b)

\* the items of a dict, in its order
RECURSIVE Items(_)
Items(d) ==
    IF DOMAIN d = {} THEN <<>>
    ELSE LET k == CHOOSE q \in DOMAIN d : TRUE
         IN  <<<<k, d[k]>>>> \o Items([o \in DOMAIN d \ {k} |-> d[o]])

\* the constructor call of _compute_sensitivity (lines 34-41)
CfgDeEscala(scale, overflow_penalty_km, lp_solver) ==
    Constructor([objetivo |-> "distancia", relax |-> FALSE, cap_multiplier |-> scale,
                 capacity_override |-> None, overflow_penalty_km |-> overflow_penalty_km,
                 kmax |-> None, max_distance_km |-> None, lp_solver |-> lp_solver])

\* the row of a factor that did not give a model
FilaFallida(scale, nota) ==
    [scale |-> scale, objective_km |-> None, patios_saturados |-> <<>>,
     rutas_sin_asignacion |-> <<>>, notas |-> nota]

\* mutant: a depot counts as saturated whatever its slack
FilaResueltaSinHolgura(scale, s, m, sl) ==
    [scale |-> scale, objective_km |-> Some(sl.objective),
     patios_saturados |-> s.patios, rutas_sin_asignacion |-> <<>>, notas |-> ""]

\* lines 50-67: the row of a factor solved to optimality
FilaResuelta(scale, s, m, sl) ==
    LET df == ExportarDe(s, m, sl).resultados_df
        usado(p) == SumFn([r \in m.Capacidad_Patio[p].vars |-> sl.x[<<r, p>>]],
                          m.Capacidad_Patio[p].vars)
    IN  [scale |-> scale,
         objective_km |-> Some(sl.objective),
         patios_saturados |->
             FilterSeq(s.patios, {p \in Range(s.patios) :
                 p # overflow_id /\ usado(p) = m.Capacidad_Patio[p].rhs * XDen}),
         rutas_sin_asignacion |->
             FilterSeq(s.rutas, {r \in Range(s.rutas) :
                 BusesDe(df, "geo_code", r) # s.pvr[r] * XDen}),
         notas |-> ""]

\* what _compute_sensitivity can do for one factor: return (result, modelo),
\* or let the exception of resolver escape
ComputeSensitivity(scale, overflow_penalty_km, lp_solver, arch) ==
    LET c == CfgDeEscala(scale, overflow_penalty_km, lp_solver)
        s == CargarDatosDe(c, arch)
        m == ConstruirModeloDe(c, s)
    IN  IF s.error # NoError
        THEN {[excepcion |-> NoError, result |-> FilaFallida(scale, s.error.causa),
               model |-> None]}
        ELSE {[excepcion |-> CreateSolver(c, FALSE), result |-> FilaFallida(scale, ""),
               model |-> None]}
             \cup
             (IF CreateSolver(c, TRUE) # NoError
              THEN {[excepcion |-> CreateSolver(c, TRUE), result |-> FilaFallida(scale, ""),
                     model |-> None]}
              ELSE {IF ResolverOk(sl)
                    THEN [excepcion |-> NoError, result |-> FilaResuelta(scale, s, m, sl),
                          model |-> Some([capacidades |-> s.capacidades, patios |-> s.patios,
                                          rutas |-> s.rutas, pvr |-> s.pvr, x |-> sl.x,
                                          objective |-> sl.objective])]
                    ELSE [excepcion |-> NoError, result |-> FilaFallida(scale, "no_optimo"),
                          model |-> None] : sl \in Soluciones(m)})

\* mutant: one override dict is shared by the perturbations and keeps the
\* entries of the depots perturbed before
CfgDePerturbacionAcumulada(patio, cap, base_scale) ==
    LET previo == IF sens.stage = "B" /\ sens.shadow_rows # <<>>
                  THEN Get(sens.modelo).cfg.capacity_override ELSE EmptyDict
    IN  Constructor([objetivo |-> "distancia", relax |-> FALSE, cap_multiplier |-> base_scale,
                     capacity_override |-> Some((patio :> (cap + 1)) @@ previo),
                     overflow_penalty_km |-> None, kmax |-> None, max_distance_km |-> None,
                     lp_solver |-> "cbc"])

\* the constructor call of Stage B (lines 173-179)
CfgDePerturbacion(patio, cap, base_scale) ==
    Constructor([objetivo |-> "distancia", relax |-> FALSE, cap_multiplier |-> base_scale,
                 capacity_override |-> Some(patio :> (cap + 1)), overflow_penalty_km |-> None,
                 kmax |-> None, max_distance_km |-> None, lp_solver |-> "cbc"])

\* lines 172-190: the perturbed instance with what the try block leaves in
\* obj and note; every exception is caught
Perturbar(patio, cap, base_scale, arch) ==
    LET c == CfgDePerturbacion(patio, cap, base_scale)
        s == CargarDatosDe(c, arch)
        m == ConstruirModeloDe(c, s)
        inst == [cfg |-> c, capacidades |-> s.capacidades]
    IN  IF s.error # NoError
        THEN {[modelo |-> inst, obj |-> None, note |-> s.error.causa]}
        ELSE {[modelo |-> inst, obj |-> None, note |-> CreateSolver(c, FALSE).causa]}
             \cup
             {IF ResolverOk(sl)
              THEN [modelo |-> inst, obj |-> Some(sl.objective), note |-> ""]
              ELSE [modelo |-> inst, obj |-> None, note |-> "no_converge"] :
                  sl \in Soluciones(m)}

\* mutant: the difference is taken the other way round
DeltaInverso(base_objective, obj) == obj - base_objective

\* line 185
Delta(base_objective, obj) == base_objective - obj

\* mutant: a failed perturbation is recorded as if it had changed nothing
FilaShadowSinNulos(patio, cap, base_scale, base_objective, res) ==
    [patio_id |-> patio, scale_base |-> base_scale, base_capacity |-> cap,
     base_objective_km |-> base_objective,
     objective_with_plus1 |-> Some(base_objective),
     delta_objective_km |-> Some(0),
     notas |-> res.note]

\* lines 191-201
FilaShadow(patio, cap, base_scale, base_objective, res) ==
    [patio_id |-> patio, scale_base |-> base_scale, base_capacity |-> cap,
     base_objective_km |-> base_objective,
     objective_with_plus1 |-> res.obj,
     delta_objective_km |-> IF res.obj = None THEN None
                            ELSE Some(Delta(base_objective, Get(res.obj))),
     notas |-> res.note]

\* the lists --capacities-scale is given (nargs="*"), the default first
ListasDeEscalas ==
    {<<<<4, 5>>, <<1, 1>>, <<6, 5>>>>, <<>>, <<<<1, 1>>>>, <<<<1, 2>>>>, <<<<1, 2>>, <<1, 1>>>>,
     <<<<6, 5>>, <<1, 2>>>>, <<<<1, 1>>, <<1, 1>>>>, <<<<6, 5>>, <<4, 5>>>>}

\* the sensitivity subparser defines --capacities-scale only
ArgsSensitivity ==
    [command : {"sensitivity"}, capacities_scale : ListasDeEscalas]

\* depots of the cost tables without a capacity entry, and the reverse
ArchivosSensGen ==
    {a \in ArchivosGen :
        /\ a.pvr["R1"] = 1 /\ a.pvr["R2"] = MaxDemand
        /\ \A p \in DOMAIN a.capacidades : a.capacidades[p] # 0
        /\ \A p \in DOMAIN a.matriz_distancias :
               /\ DOMAIN a.matriz_distancias[p] = {"R1", "R2"}
               /\ DOMAIN a.matriz_tiempos[p] = {"R1", "R2"}
        /\ a.matriz_tiempos["P1"]["R1"] # 2000}

\* the first fixture with a capacity table that lacks a depot of the cost
\* tables, and with one that has a depot the cost tables lack
FixturesTablaDistinta ==
    {[FixtureLpSmall EXCEPT !.capacidades = ("P1" :> 10)],
     [FixtureLpSmall EXCEPT !.capacidades = ("P1" :> 4 @@ "P2" :> 6 @@ "P3" :> 5)]}

ArchivosSens == Fixtures \cup FixturesTablaDistinta \cup ArchivosSensGen

InitSens ==
    \E a \in ArgsSensitivity, arch \in ArchivosSens : InitCli(a, arch)

\* lines 150-154
CmdSensitivity ==
    /\ pc = "cmd"
    /\ cli_args.command = "sensitivity"
    /\ sens.stage = "none"
    /\ sens' = [NoSens EXCEPT !.stage = "A",
                              !.scales = IF cli_args.capacities_scale = <<>>
                                         THEN <<<<1, 1>>>> ELSE cli_args.capacities_scale,
                              !.i = 1]
    /\ UNCHANGED <<pc, cfg, archivos, self, modelo, sol, out, error, cli_args, demo, exit_code>>

\* lines 155-159: one pass of the loop over the factors; an exception that
\* leaves _compute_sensitivity leaves the command
StageA ==
    /\ sens.stage = "A"
    /\ sens.i <= Len(sens.scales)
    /\ \E res \in ComputeSensitivity(sens.scales[sens.i], None, "cbc", archivos) :
          IF res.excepcion # NoError
          THEN /\ sens' = [sens EXCEPT !.stage = "crashed"]
               /\ error' = res.excepcion
               /\ exit_code' = Some(1)
          ELSE /\ sens' = [sens EXCEPT
                              !.i = @ + 1,
                              !.rows = Append(@, res.result),
                              !.modelo = res.model,
                              !.feasible_models =
                                  IF res.model = None THEN @
                                  ELSE (sens.scales[sens.i] :> Get(res.model)) @@ @]
               /\ UNCHANGED <<error, exit_code>>
    /\ UNCHANGED <<pc, cfg, archivos, self, modelo, sol, out, cli_args, demo>>

\* lines 160-170 and 204-207: the sweep is written; with a feasible factor
\* the baseline is chosen, without one the command ends
StageAFin ==
    /\ sens.stage = "A"
    /\ sens.i > Len(sens.scales)
    /\ IF DOMAIN sens.feasible_models # {}
       THEN LET base_scale == MaxEscala(DOMAIN sens.feasible_models)
                base_model == sens.feasible_models[base_scale]
            IN  /\ sens' = [sens EXCEPT !.stage = "B",
                                        !.sweep_csv = Some(sens.rows),
                                        !.base_scale = base_scale,
                                        !.base_objective = base_model.objective,
                                        !.base_capacidades = base_model.capacidades,
                                        !.base_patios = base_model.patios,
                                        !.j = 1]
                /\ UNCHANGED exit_code
       ELSE /\ sens' = [sens EXCEPT !.stage = "done", !.sweep_csv = Some(sens.rows)]
            /\ exit_code' = Some(0)
    /\ UNCHANGED <<pc, cfg, archivos, self, modelo, sol, out, error, cli_args, demo>>

\* lines 171-201: one pass of the loop over base_capacidades.items()
StageB ==
    /\ sens.stage = "B"
    /\ sens.j <= Len(Items(sens.base_capacidades))
    /\ LET item == Items(sens.base_capacidades)[sens.j]
       IN  \E res \in Perturbar(item[1], item[2], sens.base_scale, archivos) :
              sens' = [sens EXCEPT
                          !.j = @ + 1,
                          !.modelo = Some(res.modelo),
                          !.shadow_rows =
                              Append(@, FilaShadow(item[1], item[2], sens.base_scale,
                                                   sens.base_objective, res))]
    /\ UNCHANGED <<pc, cfg, archivos, self, modelo, sol, out, error, cli_args, demo, exit_code>>

\* lines 202-203 and 207
StageBFin ==
    /\ sens.stage = "B"
    /\ sens.j > Len(Items(sens.base_capacidades))
    /\ sens' = [sens EXCEPT !.stage = "done", !.shadow_csv = Some(sens.shadow_rows)]
    /\ exit_code' = Some(0)
    /\ UNCHANGED <<pc, cfg, archivos, self, modelo, sol, out, error, cli_args, demo>>

NextSens == CmdSensitivity \/ StageA \/ StageAFin \/ StageB \/ StageBFin

SpecSens == InitSens /\ [][NextSens]_vars

\* -------------------------------------------------------- generate_mip_demo.py
\* The script run as a process: a position is the line of its next file
\* operation.  A file holds the original dataset or its top-10 filter; the
\* filter of either is the top-10 filter.
DatasetFiles == <<"matriz_distancias.json", "matriz_tiempos.json", "pvr_por_ruta.csv">>

Runs == {1, 2}

NoFile == "absent"

\* the file a line works on
ArchivoDeLinea ==
    [l35 |-> DatasetFiles[1], l38 |-> DatasetFiles[2],
     l46 |-> DatasetFiles[1], l47 |-> DatasetFiles[2], l48 |-> DatasetFiles[3],
     l51 |-> DatasetFiles[1], l52 |-> DatasetFiles[2], l53 |-> DatasetFiles[3],
     l71 |-> DatasetFiles[1], l72 |-> DatasetFiles[2], l73 |-> DatasetFiles[3],
     l86 |-> DatasetFiles[1], l87 |-> DatasetFiles[2], l88 |-> DatasetFiles[3]]

\* the line after a line
Siguiente ==
    [l12 |-> "l35", l35 |-> "l38", l38 |-> "l46", l46 |-> "l47", l47 |-> "l48",
     l48 |-> "l51", l51 |-> "l52", l52 |-> "l53", l53 |-> "l60", l60 |-> "l71",
     l71 |-> "l72", l72 |-> "l73", l73 |-> "l76", l76 |-> "l86", l86 |-> "l87",
     l87 |-> "l88", l88 |-> "done"]

Avanza(d, i) == [d EXCEPT !.run[i].pc = Siguiente[@]]

\* FileNotFoundError ends the script at the line that raised it
Falla(d, i) == [d EXCEPT !.run[i] = [pc |-> "crashed", fallo |-> d.run[i].pc]]

InitDemo ==
    /\ pc = "demo"
    /\ cfg = NoCfg
    /\ archivos = NoArchivos
    /\ self = NoSelf
    /\ modelo = NoModelo
    /\ sol = NoSol
    /\ out = NoOut
    /\ error = NoError
    /\ cli_args = NoArgs
    /\ exit_code = None
    /\ sens = NoSens
    /\ demo = [archivo |-> [f \in Range(DatasetFiles) |-> "original"],
               top10   |-> [f \in Range(DatasetFiles) |-> NoFile],
               backup  |-> [f \in Range(DatasetFiles) |-> NoFile],
               run     |-> [i \in Runs |-> [pc |-> "l12", fallo |-> ""]]]

DemoFrame == UNCHANGED <<pc, cfg, archivos, self, modelo, sol, out, error, cli_args,
                         exit_code, sens>>

\* lines 12-19: read pvr_por_ruta.csv, keep the top 10, write pvr_por_ruta_top10.csv
FiltrarPvr(i) ==
    /\ demo.run[i].pc = "l12"
    /\ demo' = [Avanza(demo, i) EXCEPT !.top10[DatasetFiles[3]] = "top10"]
    /\ DemoFrame

\* lines 22-39: the two cost tables are read, filtered and written
GuardarTop10(i) ==
    /\ demo.run[i].pc \in {"l35", "l38"}
    /\ demo' = [Avanza(demo, i) EXCEPT !.top10[ArchivoDeLinea[demo.run[i].pc]] = "top10"]
    /\ DemoFrame

\* lines 46-48: shutil.copy2(file, backup)
Backup(i) ==
    /\ demo.run[i].pc \in {"l46", "l47", "l48"}
    /\ LET f == ArchivoDeLinea[demo.run[i].pc]
       IN  demo' = [Avanza(demo, i) EXCEPT !.backup[f] = demo.archivo[f]]
    /\ DemoFrame

\* lines 51-53: shutil.copy2(top10 file, file)
Reemplazar(i) ==
    /\ demo.run[i].pc \in {"l51", "l52", "l53"}
    /\ LET f == ArchivoDeLinea[demo.run[i].pc]
       IN  demo' = [Avanza(demo, i) EXCEPT !.archivo[f] = demo.top10[f]]
    /\ DemoFrame

\* lines 59-68: the solve runs in a subprocess; its return code is only printed
EjecutarMip(i) ==
    /\ demo.run[i].pc = "l60"
    /\ demo' = Avanza(demo, i)
    /\ DemoFrame

\* mutant: the file is restored from the top-10 file
RestauradoDesdeTop10(d, f) == d.top10[f]

\* lines 71-73: what shutil.copy2(backup, file) writes
Restaurado(d, f) == d.backup[f]

\* lines 71-73: without the backup the copy raises
Restaurar(i) ==
    /\ demo.run[i].pc \in {"l71", "l72", "l73"}
    /\ LET f == ArchivoDeLinea[demo.run[i].pc]
       IN  demo' = IF demo.backup[f] = NoFile THEN Falla(demo, i)
                   ELSE [Avanza(demo, i) EXCEPT !.archivo[f] = Restaurado(demo, f)]
    /\ DemoFrame

\* lines 76-83: the result is copied to the report, if there is one
CopiarResultado(i) ==
    /\ demo.run[i].pc = "l76"
    /\ demo' = Avanza(demo, i)
    /\ DemoFrame

\* lines 86-88: os.remove(backup) raises when the backup is gone
Limpiar(i) ==
    /\ demo.run[i].pc \in {"l86", "l87", "l88"}
    /\ LET f == ArchivoDeLinea[demo.run[i].pc]
       IN  demo' = IF demo.backup[f] = NoFile THEN Falla(demo, i)
                   ELSE [Avanza(demo, i) EXCEPT !.backup[f] = NoFile]
    /\ DemoFrame

NextDemo ==
    \E i \in Runs :
        \/ FiltrarPvr(i)
        \/ GuardarTop10(i)
        \/ Backup(i)
        \/ Reemplazar(i)
        \/ EjecutarMip(i)
        \/ Restaurar(i)
        \/ CopiarResultado(i)
        \/ Limpiar(i)

SpecDemo == InitDemo /\ [][NextDemo]_vars

\* --------------------------------------------------------------------- claims
Resuelto == pc \in {"solved", "exported"}

\* buses the solver put on depot p, over all routes
TotalPatio(p) ==
    LET K == {par \in DOMAIN sol.x : par[2] = p}
    IN  SumFn([par \in K |-> sol.x[par]], K)

\* buses the solver gave route r, over all depots
TotalRuta(r) ==
    LET K == {par \in DOMAIN sol.x : par[1] = r}
    IN  SumFn([par \in K |-> sol.x[par]], K)

\* C1: after a successful load, build and solve, the exported list gives every
\* route of the model exactly its demand, summed over the depots.
C1_DemandaExportada ==
    pc = "exported" =>
        \A r \in Range(self.rutas) :
            BusesDe(out.resultados_df, "geo_code", r) = self.pvr[r] * XDen

\* the scaled capacity of a depot of the capacity table, as the claim defines it
CapEscalada(p) ==
    Max2(0, IF p \in DOMAIN cfg.capacity_override
            THEN cfg.capacity_override[p]
            ELSE PyRound(archivos.capacidades[p] * cfg.cap_multiplier[1],
                         cfg.cap_multiplier[2]))

C3_SoloCompatibles ==
    /\ Resuelto => \A par \in DOMAIN sol.x : sol.x[par] > 0 => AGet(self.A, par[1], par[2]) = 1
    /\ pc = "exported" =>
          \A i \in DOMAIN out.resultados_df :
              AGet(self.A, out.resultados_df[i].geo_code, out.resultados_df[i].patio_id) = 1
    /\ pc \in {"built", "solved", "exported"} =>
          \A par \in Range(modelo.x_keys) :
              AGet(self.A, par[1], par[2]) = 0 => par \in modelo.Compatibilidad

C3_Witness ==
    /\ pc = "exported"
    /\ out.resultados_df # <<>>
    /\ \E par \in DOMAIN self.A : self.A[par] = 0

\* the bound the claims give a depot: unbounded in practice for the overflow
\* depot, the scaled capacity for a depot of the capacity table, the default
\* for a depot the table does not list
CotaPatio(p) ==
    IF p = overflow_id THEN OVERFLOW_CAP
    ELSE IF p \in DOMAIN archivos.capacidades THEN CapEscalada(p)
    ELSE CAPACIDAD_PATIO_DEFAULT

\* unit cost of a pair in the active objective, after the load
CostoActivo(r, p) ==
    IF cfg.objetivo = "distancia" THEN self.distancias[p][r] ELSE self.tiempos[p][r]

\* the whole-bus rows of one route: demand met, nothing on a pair with
\* A[r,p] = 0 and, when conK, at most kmax depots in use
FilasEnteras(r, conK) ==
    LET P == Range(self.patios)
    IN  {f \in Repartos(P, 0..self.pvr[r], self.pvr[r]) :
            /\ \A p \in P : AGet(self.A, r, p) = 0 => f[p] = 0
            /\ (conK /\ cfg.kmax # None) =>
                   Cardinality({p \in P : f[p] > 0}) <= Get(cfg.kmax)}

RECURSIVE AsignacionesEnteras(_, _)
AsignacionesEnteras(rs, conK) ==
    IF rs = <<>> THEN {EmptyDict}
    ELSE {(Head(rs) :> f) @@ x : f \in FilasEnteras(Head(rs), conK),
                                 x \in AsignacionesEnteras(Tail(rs), conK)}

CostoEntero(x) ==
    LET K == {par \in Range(self.rutas) \X Range(self.patios) : x[par[1]][par[2]] > 0}
    IN  SumFn([par \in K |-> CostoActivo(par[1], par[2]) * x[par[1]][par[2]]], K)

\* the costs of the whole-bus assignments within the depot bounds
CostosEnteros(conK) ==
    {CostoEntero(x) :
        x \in {y \in AsignacionesEnteras(self.rutas, conK) :
                 \A p \in Range(self.patios) :
                     SumFn([r \in Range(self.rutas) |-> y[r][p]], Range(self.rutas))
                         <= CotaPatio(p)}}

EsFixtureLpSmallPorDefecto ==
    /\ archivos = FixtureLpSmall
    /\ cfg = Constructor(ArgsDefault)

OptimoLpSmall ==
    (<<"R1", "P1">> :> 4 * XDen) @@ (<<"R1", "P2">> :> 1 * XDen)
    @@ (<<"R2", "P1">> :> 0) @@ (<<"R2", "P2">> :> 3 * XDen)

\* C4 as stated: on success of the integer model the objective is the least
\* cost over the whole-bus assignments that meet demand, the depot bounds and
\* x[r,p] = 0 where A[r,p] = 0; on the fixture of test_lp_small it is 79.
C4_Original ==
    (Resuelto /\ ~cfg.relax) =>
        /\ sol.objective = MinSet(CostosEnteros(FALSE)) * XDen
        /\ EsFixtureLpSmallPorDefecto => (sol.objective = 7900 * XDen /\ sol.x = OptimoLpSmall)

\* C4 (amended): the same, the minimum being taken over the assignments that
\* also use at most K depots per route when a limit K is configured.
C4_ObjetivoMinimo ==
    (Resuelto /\ ~cfg.relax) =>
        /\ sol.objective = MinSet(CostosEnteros(TRUE)) * XDen
        /\ EsFixtureLpSmallPorDefecto => (sol.objective = 7900 * XDen /\ sol.x = OptimoLpSmall)

C4_Witness ==
    /\ pc = "solved"
    /\ ~cfg.relax
    /\ cfg.kmax # None
    /\ archivos = FixtureLpSmall
    /\ sol.objective = 11100 * XDen
    /\ MinSet(CostosEnteros(FALSE)) = 7900

\* the routes of the demand table with no compatible depot among the depots
\* loaded, A[r,p] being what the compatibility rule gives on the loaded tables
SinCompatibles ==
    FilterSeq(archivos.geo_codes,
        {r \in Range(archivos.geo_codes) :
            \A p \in Range(self.patios) :
                Compatible(cfg, self.distancias, self.tiempos, r, p) = 0})

\* the routes without a distance entry at any depot of the input
SinDistancias ==
    FilterSeq(archivos.geo_codes,
        {r \in Range(archivos.geo_codes) :
            CostosRuta(archivos.matriz_distancias, archivos.patios_keys, r) = {}})

\* cargar_datos ended in a validation error that names exactly these routes,
\* and nothing was built or solved
FallaNombrando(rutas) ==
    /\ pc = "error"
    /\ error.tipo = "ValueError"
    /\ error.rutas = rutas
    /\ modelo = NoModelo
    /\ sol = NoSol

\* C5 as stated: a route with A[r,p] = 0 for every depot makes cargar_datos
\* fail with a validation error naming the first 10 such routes (all of them when
\* they are 10 or fewer), with no model built and no solve attempted.
C5_Original ==
    (pc # "init" /\ SinCompatibles # <<>>) =>
        FallaNombrando(Prefix(SinCompatibles, PREVIEW_MAX))

\* C5 (amended): that holds when the load gets as far as building A, that is
\* when overflow is not requested or every route has a distance entry; when
\* overflow is requested and some route has none, the load fails earlier with a
\* validation error naming the first such route only.
C5_ErrorCobertura ==
    pc # "init" =>
        /\ (cfg.overflow_penalty_km = None \/ SinDistancias = <<>>) =>
              /\ self.A = BuildCompatibilityMatrix(cfg, self)
              /\ SinCompatibles # <<>> =>
                    /\ FallaNombrando(Prefix(SinCompatibles, PREVIEW_MAX))
                    /\ error.causa = "cobertura"
                    /\ Len(SinCompatibles) <= PREVIEW_MAX =>
                           Range(error.rutas) = Range(SinCompatibles)
        /\ (cfg.overflow_penalty_km # None /\ SinDistancias # <<>>) =>
              /\ FallaNombrando(<<Head(SinDistancias)>>)
              /\ error.causa = "overflow"

C5_Witness ==
    /\ pc = "error"
    /\ error.causa = "cobertura"
    /\ Len(SinCompatibles) > PREVIEW_MAX
    /\ Len(error.rutas) = PREVIEW_MAX

\* cargar_datos got as far as building the compatibility matrix
MatrizConstruida ==
    \/ pc \in {"loaded", "built", "solved", "exported"}
    \/ pc = "error" /\ error.causa # "overflow"

\* the input cost table of the active objective holds a finite value for (p, r)
CostoFinito(r, p) ==
    LET tabla == IF cfg.objetivo = "distancia" THEN archivos.matriz_distancias
                 ELSE archivos.matriz_tiempos
    IN  /\ p \in DOMAIN tabla
        /\ r \in DOMAIN tabla[p]
        /\ tabla[p][r] < Inf

DentroDelUmbral(r, p) ==
    (cfg.objetivo = "distancia" /\ cfg.max_distance_km # None) =>
        /\ r \in DOMAIN archivos.matriz_distancias[p]
        /\ archivos.matriz_distancias[p][r] <= Get(cfg.max_distance_km)

EsFixtureIncompatibleConUmbral ==
    /\ archivos = FixtureIncompatible
    /\ cfg.objetivo = "distancia"
    /\ cfg.max_distance_km = Some(1200)

\* C6: once the matrix is built, for every route and real depot A[r,p] = 1
\* exactly when the active cost table holds a finite value for the pair and,
\* under the distance objective with a threshold, the distance is within it
\* (under the time objective the threshold changes nothing); with threshold 12
\* on the fixture of test_compat, (R1,P2) is incompatible, (R1,P1) and (R2,P2)
\* are compatible.
C6_MatrizCompatibilidad ==
    MatrizConstruida =>
        /\ \A r \in Range(archivos.geo_codes), p \in Range(archivos.patios_keys) :
              /\ <<r, p>> \in DOMAIN self.A
              /\ self.A[<<r, p>>] \in {0, 1}
              /\ self.A[<<r, p>>] = 1 <=> (CostoFinito(r, p) /\ DentroDelUmbral(r, p))
              /\ cfg.objetivo = "tiempo" => (self.A[<<r, p>>] = 1 <=> CostoFinito(r, p))
        /\ EsFixtureIncompatibleConUmbral =>
              /\ self.A[<<"R1", "P2">>] = 0
              /\ self.A[<<"R1", "P1">>] = 1
              /\ self.A[<<"R2", "P2">>] = 1

C6_Witness ==
    /\ pc = "loaded"
    /\ EsFixtureIncompatibleConUmbral
    /\ self.A[<<"R1", "P2">>] = 0
    /\ self.A[<<"R1", "P1">>] = 1

\* a count in units of 1/XDen is a whole number of buses
EsEntero(v) == v % XDen = 0

\* C7: in exact mode (relax = False) every bus count of the solution and of the
\* exported assignment list is an integer; a fractional count can only come from
\* relaxed mode.
C7_ConteosEnteros ==
    /\ (Resuelto /\ ~cfg.relax) => \A par \in DOMAIN sol.x : EsEntero(sol.x[par])
    /\ pc = "exported" =>
          \A i \in DOMAIN out.resultados_df :
              ~EsEntero(out.resultados_df[i].buses) => cfg.relax

C7_Witness ==
    /\ pc = "exported"
    /\ ~cfg.relax
    /\ \E i, j \in DOMAIN out.resultados_df :
          /\ i # j
          /\ out.resultados_df[i].geo_code = out.resultados_df[j].geo_code
          /\ out.resultados_df[i].costo = out.resultados_df[j].costo

\* the overflow depot was added by cargar_datos
OverflowConstruido ==
    /\ pc # "init"
    /\ cfg.overflow_penalty_km # None
    /\ overflow_id \in Range(self.patios)

\* u is n * m / d rounded to the nearest hundredth (u, m in hundredths)
Redondeado(u, n, m, d) ==
    LET dif == u * d - n * m
    IN  2 * (IF dif < 0 THEN 0 - dif ELSE dif) <= d

\* the entries of route r over the real depots in an input table
EntradasDe(tabla, r) ==
    {tabla[p][r] : p \in {q \in Range(archivos.patios_keys) :
                            q \in DOMAIN tabla /\ r \in DOMAIN tabla[q]}}

\* unit cost of the overflow depot for route r in the active objective
CostoOverflow(r) ==
    IF cfg.objetivo = "distancia" THEN self.distancias[overflow_id][r]
    ELSE self.tiempos[overflow_id][r]

\* what C8 as stated asks of route r: the overflow unit cost is f times the
\* largest finite cost of r over the real depots in the active cost table
OverflowSegunBaseActiva(r) ==
    LET f == Get(cfg.overflow_penalty_km)
        tabla == IF cfg.objetivo = "distancia" THEN archivos.matriz_distancias
                 ELSE archivos.matriz_tiempos
        finitos == {c \in EntradasDe(tabla, r) : IsFinite(c)}
    IN  finitos # {} => Redondeado(CostoOverflow(r), f[1], MaxSet(finitos), f[2])

PatiosReales == Range(self.patios) \ {overflow_id}

\* the bounds of the real depots of the model, summed
CapacidadReal == SumFn([p \in PatiosReales |-> CotaPatio(p)], PatiosReales)

DemandaTotal == SumFn(archivos.pvr, Range(archivos.geo_codes))

\* a solved run with the overflow depot whose real depots cannot hold the demand
FaltaCapacidad ==
    /\ Resuelto
    /\ OverflowConstruido
    /\ CapacidadReal < DemandaTotal

\* every route may use every depot, no limit of depots per route, and the
\* overflow depot costs each route more than any real depot
OverflowSoloPorFalta ==
    /\ cfg.kmax = None
    /\ \A r \in Range(self.rutas) :
          /\ self.A[<<r, overflow_id>>] = 1
          /\ \A p \in PatiosReales :
                /\ self.A[<<r, p>>] = 1
                /\ CostoActivo(r, overflow_id) > CostoActivo(r, p)

\* C9 as stated: with overflow enabled and less real capacity than demand,
\* every optimal solution puts exactly (demand - real capacity) buses on the
\* overflow depot.
C9_Original ==
    FaltaCapacidad => TotalPatio(overflow_id) = (DemandaTotal - CapacidadReal) * XDen

\* C9 (amended): every optimal solution puts at least (demand - real capacity)
\* buses on the overflow depot, and exactly that many when every route is
\* compatible with every depot, no limit of depots per route is set and the
\* overflow depot costs each route more than any real depot; the exported
\* overflow count is the solution's.
C9_OverflowAbsorbe ==
    FaltaCapacidad =>
        /\ TotalPatio(overflow_id) >= (DemandaTotal - CapacidadReal) * XDen
        /\ OverflowSoloPorFalta =>
              TotalPatio(overflow_id) = (DemandaTotal - CapacidadReal) * XDen
        /\ pc = "exported" => out.overflow_buses = TotalPatio(overflow_id)

C9_Witness ==
    /\ FaltaCapacidad
    /\ pc = "exported"
    /\ OverflowSoloPorFalta
    /\ out.overflow_buses = (DemandaTotal - CapacidadReal) * XDen

\* the scaled capacities of the capacity table, summed
CapacidadTabla ==
    SumFn([p \in DOMAIN archivos.capacidades |-> CapEscalada(p)], DOMAIN archivos.capacidades)

\* cargar_datos ended in the capacity error, which reports total demand and
\* total scaled capacity, and nothing was built or solved
FallaPorCapacidad ==
    /\ pc = "error"
    /\ error.tipo = "ValueError"
    /\ error.causa = "capacidad"
    /\ error.pvr = DemandaTotal
    /\ error.cap = CapacidadTabla
    /\ error.pvr - error.cap = DemandaTotal - CapacidadTabla
    /\ modelo = NoModelo
    /\ sol = NoSol

\* C10 as stated: without overflow, total demand above total scaled capacity
\* makes cargar_datos fail with the capacity error before anything is built or
\* solved; with overflow requested that check never fails.
C10_Original ==
    pc # "init" =>
        /\ (cfg.overflow_penalty_km = None /\ DemandaTotal > CapacidadTabla) => FallaPorCapacidad
        /\ cfg.overflow_penalty_km # None => error.causa # "capacidad"

\* C10 (amended): the capacity error needs, besides, every route to have a
\* compatible depot; when some route has none the coverage error is raised
\* instead, whatever the capacities.  The error reports total demand and total
\* scaled capacity and is raised in no other case.
C10_ErrorCapacidad ==
    pc # "init" =>
        /\ (cfg.overflow_penalty_km = None /\ SinCompatibles = <<>>
                /\ DemandaTotal > CapacidadTabla) => FallaPorCapacidad
        /\ (cfg.overflow_penalty_km = None /\ SinCompatibles # <<>>) =>
              (pc = "error" /\ error.causa = "cobertura")
        /\ cfg.overflow_penalty_km # None => error.causa # "capacidad"
        /\ error.causa = "capacidad" => DemandaTotal > CapacidadTabla

C10_Witness ==
    /\ FallaPorCapacidad
    /\ cfg.capacity_override # EmptyDict
    /\ error.pvr - error.cap > 0

\* the backends _create_solver knows
Soportados == {"cbc", "glpk", "clp"}

\* the run ended in the configuration error of _create_solver
ErrorDeBackend == error.causa \in {"solver_no_soportado", "solver_no_disponible"}

\* modelo.solve was invoked
SolverInvocado == sol # NoSol

\* C12: the backend is verified before the solve: an unsupported or
\* unavailable backend makes resolver raise without the solver being invoked,
\* and that outcome differs from the not-optimal one, where the solver was
\* invoked and resolver returned False.
C12_BackendVerificado ==
    /\ SolverInvocado => cfg.lp_solver \in Soportados
    /\ (pc \in {"solved", "exported", "error"} /\ cfg.lp_solver \notin Soportados) =>
          /\ pc = "error"
          /\ error = ValueError("solver_no_soportado", <<>>, 0, 0)
    /\ ErrorDeBackend =>
          /\ pc = "error"
          /\ ~SolverInvocado
          /\ error.causa = "solver_no_disponible" =>
                (error.tipo = "RuntimeError" /\ cfg.lp_solver \in Soportados)
    /\ (pc = "error" /\ SolverInvocado) =>
          /\ ~ResolverOk(sol)
          /\ error = RuntimeError("no_optimo")
          /\ ~ErrorDeBackend

C12_Witness ==
    /\ pc = "error"
    /\ error.causa = "solver_no_disponible"
    /\ cfg.lp_solver = "glpk"
    /\ ~SolverInvocado

\* the depots that give buses to route r in the solution
PatiosUsados(r) == {p \in Range(self.patios) : sol.x[<<r, p>>] > 0}

\* C19: with a limit K > 0 the model has, per route, sum of z over its
\* compatible depots <= K and, per compatible pair, x <= demand[r] * z with the
\* route's own demand as multiplier; every accepted solution gives a route
\* buses from at most K depots.
C19_LimiteKMax ==
    /\ (pc \in {"built", "solved", "exported"} /\ cfg.kmax # None) =>
          /\ Get(cfg.kmax) > 0
          /\ modelo.z_keys = Range(self.rutas) \X Range(self.patios)
          /\ \A r \in Range(self.rutas) :
                /\ modelo.KMax_Ruta[r].rhs = Get(cfg.kmax)
                /\ modelo.KMax_Ruta[r].vars = {p \in Range(self.patios) : self.A[<<r, p>>] = 1}
                /\ \A p \in Range(self.patios) :
                      /\ self.A[<<r, p>>] = 1 <=> <<r, p>> \in DOMAIN modelo.Z_Binding
                      /\ self.A[<<r, p>>] = 1 => modelo.Z_Binding[<<r, p>>] = archivos.pvr[r]
    /\ (Resuelto /\ cfg.kmax # None) =>
          \A r \in Range(self.rutas) : Cardinality(PatiosUsados(r)) <= Get(cfg.kmax)

C19_Witness ==
    /\ pc = "exported"
    /\ cfg.kmax = Some(1)
    /\ cfg.relax
    /\ archivos = FixtureLpSmall
    /\ \A r \in Range(self.rutas) : Cardinality(PatiosUsados(r)) = 1

\* main got past resolver
ResolverAcepto == pc \in {"solved", "exported"}

\* C11: resolver reports success exactly when the solver's status is Optimal;
\* after any other status main raises instead of exporting, so no assignment
\* list comes from a non-optimal solve; for the aggregate and the per-unit
\* model alike.
C11_SoloOptimo ==
    /\ ResolverAcepto => sol.status = "Optimal"
    /\ (SolverInvocado /\ sol.status = "Optimal") => ResolverAcepto
    /\ (SolverInvocado /\ sol.status # "Optimal") =>
          /\ sol.status \in {"Infeasible", "Not Solved", "Undefined", "Unbounded"}
          /\ pc = "error"
          /\ error = RuntimeError("no_optimo")
          /\ out = NoOut
          /\ exit_code # Some(0)
    /\ out # NoOut => sol.status = "Optimal"

C11_Witness ==
    /\ EsMip
    /\ sol.status = "Not Solved"
    /\ pc = "error"
    /\ exit_code = Some(1)
    /\ out = NoOut

\* the failures the solve command can meet
FallasDeSolve ==
    {"cobertura", "capacidad", "overflow", "sin_costos", "costo",
     "solver_no_soportado", "solver_no_disponible", "no_optimo"}

\* C18: the solve command returns 0 exactly when loading, construction, solve
\* and export all succeeded; a validation failure, a solver-backend failure or
\* a non-optimal solve gives a non-zero status, in each of the three modes.
C18_CodigoDeSalida ==
    (cli_args.command = "solve" /\ exit_code # None) =>
        /\ exit_code \in {Some(0), Some(1)}
        /\ exit_code = Some(0) <=> pc = "exported"
        /\ pc = "exported" =>
              /\ error = NoError
              /\ self # NoSelf
              /\ modelo # NoModelo
              /\ sol.status = "Optimal"
        /\ pc = "error" => (error # NoError /\ error.causa \in FallasDeSolve)
        /\ pc = "cmd" => archivos = NoArchivos
        /\ pc \in {"exported", "error", "cmd"}

C18_Witness ==
    /\ cli_args.command = "solve"
    /\ cli_args.mode = "lp_relax"
    /\ error.causa = "capacidad"
    /\ exit_code = Some(1)

\* the aggregate integer model of the same instance: same objective, scale 1,
\* nothing else configured
CfgAgregado ==
    Constructor([ArgsDefault EXCEPT !.objetivo = cfg.objetivo])

\* units of route r the per-unit solution puts on depot p
UnidadesEn(r, p) ==
    Cardinality({k \in DOMAIN sol.x : k[1] = r /\ k[3] = p /\ sol.x[k] = 1})

\* the per-unit solution summed per (route, depot), as a point of the aggregate
\* model
Agregada == [r \in Range(self.rutas) |-> [p \in Range(self.patios) |-> UnidadesEn(r, p) * XDen]]

FilasResueltas == {i \in DOMAIN sens.rows : sens.rows[i].objective_km # None}

EtapaATerminada == sens.stage \in {"B", "done", "crashed"}

\* C13: when Stage A is over, whatever failed on the way, the sweep table has
\* exactly one row per requested factor, in request order, and the row of a
\* factor that failed has a null objective and a non-empty note.
C13_AislamientoEtapaA ==
    EtapaATerminada =>
        /\ sens.sweep_csv # None
        /\ Len(Get(sens.sweep_csv)) = Len(cli_args.capacities_scale)
        /\ \A i \in DOMAIN Get(sens.sweep_csv) :
              LET fila == Get(sens.sweep_csv)[i]
              IN  /\ fila.scale = cli_args.capacities_scale[i]
                  /\ fila.objective_km = None => fila.notas # ""

\* C14: the baseline of Stage B is the largest scale among the factors that
\* Stage A solved to optimality, with the objective of that solve; a factor
\* that failed is never the baseline; when no factor was solved there is no
\* Stage B and no shadow-price table.
C14_BaselineMayorEscala ==
    sens.stage \in {"B", "done"} =>
        IF FilasResueltas = {}
        THEN sens.stage = "done" /\ sens.shadow_csv = None /\ sens.shadow_rows = <<>>
        ELSE /\ sens.stage = "done" => sens.shadow_csv # None
             /\ \E i \in FilasResueltas :
                   /\ sens.rows[i].scale = sens.base_scale
                   /\ Get(sens.rows[i].objective_km) = sens.base_objective
             /\ \A k \in FilasResueltas : ~RatMenor(sens.base_scale, sens.rows[k].scale)
             /\ sens.base_capacidades =
                    ScaledCaps(CfgDeEscala(sens.base_scale, None, "cbc"), archivos.capacidades)

\* a larger factor failed, a smaller one was solved, and the baseline is between
C14_Witness ==
    /\ sens.stage = "B"
    /\ \E i \in DOMAIN sens.rows :
          sens.rows[i].objective_km = None /\ RatMenor(sens.base_scale, sens.rows[i].scale)
    /\ \E k \in FilasResueltas : RatMenor(sens.rows[k].scale, sens.base_scale)

\* C15: every depot of the baseline model has exactly one shadow-price record;
\* the perturbed model of a record has the capacity of its depot one above the
\* baseline and the baseline capacity at every other depot, the scale of the
\* baseline, no overflow and no K limit; delta is baseline minus perturbed.
C15_PerturbacionPorPatio ==
    /\ (sens.stage = "B" /\ sens.shadow_rows # <<>>) =>
          LET m == Get(sens.modelo)
              fila == sens.shadow_rows[Len(sens.shadow_rows)]
          IN  /\ \A p \in DOMAIN sens.base_capacidades :
                    m.capacidades[p] = sens.base_capacidades[p]
                                       + (IF p = fila.patio_id THEN 1 ELSE 0)
              /\ fila.base_capacity = sens.base_capacidades[fila.patio_id]
              /\ m.cfg.cap_multiplier = sens.base_scale
              /\ m.cfg.overflow_penalty_km = None
              /\ m.cfg.kmax = None
              /\ fila.objective_with_plus1 # None =>
                    Get(fila.delta_objective_km)
                        = sens.base_objective - Get(fila.objective_with_plus1)
    /\ (sens.stage = "done" /\ sens.shadow_csv # None) =>
          /\ Len(Get(sens.shadow_csv)) = Len(sens.base_patios)
          /\ \A p \in Range(sens.base_patios) :
                \E i \in DOMAIN Get(sens.shadow_csv) : Get(sens.shadow_csv)[i].patio_id = p

\* C16: the delta of every record whose perturbed solve succeeded is >= 0.
C16_DeltaNoNegativo ==
    \A i \in DOMAIN sens.shadow_rows :
        sens.shadow_rows[i].objective_with_plus1 # None =>
            Get(sens.shadow_rows[i].delta_objective_km) >= 0

\* one more place at a depot lowers the optimum, one more at another does not
C16_Witness ==
    /\ sens.stage = "done"
    /\ \E i, k \in DOMAIN sens.shadow_rows :
          /\ sens.shadow_rows[i].delta_objective_km # None
          /\ Get(sens.shadow_rows[i].delta_objective_km) > 0
          /\ sens.shadow_rows[k].delta_objective_km = Some(0)

\* C17: a perturbation that failed leaves a record with a null perturbed
\* objective, a null delta and the failure note; a record without note has
\* both values; every entry of the baseline capacities is recorded, in order,
\* whatever failed before it.
C17_AislamientoEtapaB ==
    /\ \A i \in DOMAIN sens.shadow_rows :
          LET fila == sens.shadow_rows[i]
          IN  /\ fila.notas # "" =>
                    fila.objective_with_plus1 = None /\ fila.delta_objective_km = None
              /\ fila.notas = "" =>
                    fila.objective_with_plus1 # None /\ fila.delta_objective_km # None
              /\ fila.patio_id = Items(sens.base_capacidades)[i][1]
    /\ (sens.stage = "done" /\ sens.shadow_csv # None) =>
          /\ Get(sens.shadow_csv) = sens.shadow_rows
          /\ Len(sens.shadow_rows) = Len(Items(sens.base_capacidades))

\* the first perturbation failed and the one after it was solved and recorded
C17_Witness ==
    /\ sens.stage = "done"
    /\ sens.shadow_csv # None
    /\ Len(sens.shadow_rows) >= 2
    /\ sens.shadow_rows[1].objective_with_plus1 = None
    /\ sens.shadow_rows[1].notas # ""
    /\ sens.shadow_rows[2].objective_with_plus1 # None

\* -- overflow depot, capacities, export
CargarDatosRetorno == pc \in {"loaded", "built", "solved", "exported"}

\* C21: whenever overflow is requested and cargar_datos has returned, the
\* overflow depot is in the depot set with the sentinel capacity and
\* A[r, overflow] = 1 for every route r, whatever the objective and the
\* distance threshold.
C21_OverflowCompatible ==
    (CargarDatosRetorno /\ cfg.overflow_penalty_km # None) =>
        /\ overflow_id \in Range(self.patios)
        /\ overflow_id \in DOMAIN self.capacidades
        /\ self.capacidades[overflow_id] = OVERFLOW_CAP
        /\ \A r \in Range(self.rutas) : AGet(self.A, r, overflow_id) = 1

\* v is the integer nearest to n/d, the even one of the two when n/d is halfway
EsRedondeo(v, n, d) ==
    /\ 2 * (v * d - n) <= d
    /\ 2 * (n - v * d) <= d
    /\ (2 * (v * d - n) = d \/ 2 * (n - v * d) = d) => v % 2 = 0

\* C22: once cargar_datos has read the capacity table, the capacity of every
\* depot p of the table is max(0, override[p]) when an override is supplied
\* for p, else max(0, round(base capacity[p] * scale)); an override for one
\* depot leaves the others at their scaled value.
C22_CapacidadEscalada ==
    pc # "init" =>
        \A p \in DOMAIN archivos.capacidades :
            /\ p \in DOMAIN self.capacidades
            /\ IF p \in DOMAIN cfg.capacity_override
               THEN self.capacidades[p] = Max2(0, cfg.capacity_override[p])
               ELSE \E v \in (0 - 4 * archivos.capacidades[p])..(4 * archivos.capacidades[p]) :
                       /\ EsRedondeo(v, archivos.capacidades[p] * cfg.cap_multiplier[1],
                                     cfg.cap_multiplier[2])
                       /\ self.capacidades[p] = Max2(0, v)

\* one depot overridden, the other scaled to a value halfway between integers
C22_Witness ==
    /\ pc = "loaded"
    /\ cfg.capacity_override = ("P1" :> 5)
    /\ cfg.cap_multiplier = <<1, 2>>
    /\ archivos.capacidades = ("P1" :> 3 @@ "P2" :> 7)
    /\ self.capacidades["P1"] = 5
    /\ self.capacidades["P2"] = 4

\* the routes of the input without a finite distance at any real depot
SinCostoFinito ==
    {r \in Range(archivos.geo_codes) :
        \A c \in CostosRuta(archivos.matriz_distancias, archivos.patios_keys, r) :
            ~IsFinite(c)}

\* C23: when overflow is requested and some route has no finite cost at any
\* real depot, cargar_datos fails with a validation error naming such a route,
\* before the overflow depot is added and with no model built; and an overflow
\* cost is never derived from a missing or non-finite real cost: every
\* overflow cost is finite.
C23_OverflowSinCostoFinito ==
    (pc # "init" /\ cfg.overflow_penalty_km # None) =>
        /\ SinCostoFinito # {} =>
              /\ pc = "error"
              /\ error.tipo = "ValueError"
              /\ Range(error.rutas) \cap SinCostoFinito # {}
              /\ overflow_id \notin Range(self.patios)
              /\ modelo = NoModelo
        /\ overflow_id \in DOMAIN self.distancias =>
              \A r \in DOMAIN self.distancias[overflow_id] :
                  IsFinite(self.distancias[overflow_id][r])

\* the (route, depot, count) triples of the exported rows
ParesExportados ==
    {<<out.resultados_df[i].geo_code, out.resultados_df[i].patio_id,
       out.resultados_df[i].buses>> : i \in DOMAIN out.resultados_df}

\* the pairs with a positive solved value and A[r,p] = 1, with that value
ParesConFlujo ==
    {<<par[1], par[2], sol.x[par]>> :
        par \in {q \in DOMAIN sol.x : sol.x[q] > 0 /\ AGet(self.A, q[1], q[2]) = 1}}

\* C24: exportar outputs exactly the pairs (r,p) with a positive solved value
\* and A[r,p] = 1, one row each, with the solved count: none of them is
\* omitted and no other pair is output.
C24_ParesExportados ==
    pc = "exported" =>
        /\ ParesExportados = ParesConFlujo
        /\ Len(out.resultados_df) = Cardinality(ParesConFlujo)

\* the part of the optimal objective carried by the overflow depot
ObjetivoEnOverflow ==
    LET K == {par \in DOMAIN modelo.objective : par[2] = overflow_id}
    IN  SumFn([par \in K |-> modelo.objective[par] * sol.x[par]], K)

\* sum of count * distance over the exported rows
KmExportados ==
    LET df == out.resultados_df
    IN  SumFn([i \in DOMAIN df |->
                  df[i].buses * self.distancias[df[i].patio_id][df[i].geo_code]],
              DOMAIN df)

\* C25 as stated: after a successful solve the total cost of exportar equals
\* the optimal objective value, under either objective, and the overflow cost
\* equals the part of the objective carried by the overflow depot.
C25_Original ==
    pc = "exported" =>
        /\ out.total_cost = sol.objective
        /\ out.overflow_cost = ObjetivoEnOverflow

\* C25 (amended): that holds under the distance objective.  Under the time
\* objective the unit cost of an exported row is the distance of its pair, so
\* the total cost is the distance in km of the exported rows, not the optimal
\* time.
C25_CostoTotal ==
    pc = "exported" =>
        /\ cfg.objetivo = "distancia" =>
              /\ out.total_cost = sol.objective
              /\ out.overflow_cost = ObjetivoEnOverflow
        /\ \A i \in DOMAIN out.resultados_df :
              out.resultados_df[i].costo
                  = self.distancias[out.resultados_df[i].patio_id][out.resultados_df[i].geo_code]
        /\ (\A i \in DOMAIN out.resultados_df : IsFinite(out.resultados_df[i].costo)) =>
              out.total_cost = KmExportados

\* distance objective, part of the demand on the overflow depot at a rounded cost
C25_Witness ==
    /\ pc = "exported"
    /\ cfg.objetivo = "distancia"
    /\ out.overflow_cost > 0
    /\ out.overflow_cost < out.total_cost
    /\ out.total_cost = sol.objective

\* the row Stage A has just recorded and the model it came from
UltimaFila == sens.rows[Len(sens.rows)]

\* the capacity the model gives a depot
CapacidadEnModelo(m, p) ==
    IF p \in DOMAIN m.capacidades THEN m.capacidades[p] ELSE CAPACIDAD_PATIO_DEFAULT

\* buses of the solution on a depot, over all routes
AsignadoEnModelo(m, p) ==
    LET K == {par \in DOMAIN m.x : par[2] = p}
    IN  SumFn([par \in K |-> m.x[par]], K)

\* C26: for a factor Stage A has solved, the recorded saturated depots are
\* exactly the depots of the model whose assigned total equals their capacity,
\* each listed once, and no route is recorded as under- or over-served.
C26_SaturadosYFaltantes ==
    (sens.stage = "A" /\ sens.rows # <<>> /\ UltimaFila.objective_km # None) =>
        LET m == Get(sens.modelo)
        IN  /\ Range(UltimaFila.patios_saturados) =
                   {p \in Range(m.patios) :
                       AsignadoEnModelo(m, p) = CapacidadEnModelo(m, p) * XDen}
            /\ Len(UltimaFila.patios_saturados)
                   = Cardinality(Range(UltimaFila.patios_saturados))
            /\ UltimaFila.rutas_sin_asignacion = <<>>

\* one depot filled to its capacity and one with room left
C26_Witness ==
    /\ sens.stage = "A"
    /\ sens.rows # <<>>
    /\ UltimaFila.objective_km # None
    /\ Len(UltimaFila.patios_saturados) = 1
    /\ Len(Get(sens.modelo).patios) = 2

\* the optimal values of the model built from the files alone, at a scale and
\* with an override; empty when the load fails or the model is infeasible
OptimoAislado(scale, override) ==
    LET c == [objetivo |-> "distancia", relax |-> FALSE, cap_multiplier |-> scale,
              capacity_override |-> override, overflow_penalty_km |-> None,
              kmax |-> None, max_distance_km |-> None, lp_solver |-> "cbc"]
        s == CargarDatosDe(c, archivos)
        m == ConstruirModeloDe(c, s)
    IN  IF s.error # NoError THEN {}
        ELSE {ValorObjetivo(m, x) : x \in Optimos(m)}

\* C27: nothing is carried from one solve of the sensitivity operation to
\* another.  The objective recorded for a factor is the optimum of the model
\* of that factor alone, and the perturbed objective recorded for a depot is
\* the optimum of the baseline with that depot alone one unit larger, whatever
\* was processed before and in whatever order; the baseline model keeps its
\* capacities and objective through Stage B.
C27_SolvesIndependientes ==
    /\ \A i \in DOMAIN sens.rows :
          /\ sens.rows[i].scale = sens.scales[i]
          /\ sens.rows[i].objective_km # None =>
                Get(sens.rows[i].objective_km) \in OptimoAislado(sens.scales[i], EmptyDict)
    /\ sens.shadow_rows # <<>> =>
          /\ sens.base_scale \in DOMAIN sens.feasible_models
          /\ sens.feasible_models[sens.base_scale].capacidades = sens.base_capacidades
          /\ sens.feasible_models[sens.base_scale].objective = sens.base_objective
          /\ sens.base_objective \in OptimoAislado(sens.base_scale, EmptyDict)
    /\ \A j \in DOMAIN sens.shadow_rows :
          LET fila == sens.shadow_rows[j]
          IN  /\ fila.scale_base = sens.base_scale
              /\ fila.base_objective_km = sens.base_objective
              /\ fila.base_capacity = sens.base_capacidades[fila.patio_id]
              /\ fila.objective_with_plus1 # None =>
                    Get(fila.objective_with_plus1) \in
                        OptimoAislado(sens.base_scale,
                                      fila.patio_id :> (fila.base_capacity + 1))

\* three factors solved with different optima, then two depots perturbed
C27_Witness ==
    /\ sens.stage = "done"
    /\ Len(sens.rows) = 3
    /\ \A i \in DOMAIN sens.rows : sens.rows[i].objective_km # None
    /\ sens.rows[1].objective_km # sens.rows[2].objective_km
    /\ Len(sens.shadow_rows) = 2
    /\ \A j \in DOMAIN sens.shadow_rows : sens.shadow_rows[j].delta_objective_km # None

\* -- generate_mip_demo.py
\* C28: a run of the demo script that reaches its end while no other run has
\* started leaves the three dataset files with their original contents and no
\* backup behind.  (With two runs interleaved that fails: a file is left with
\* filtered content and a restore finds its backup removed.)
C28_UnaCorridaRestaura ==
    pc = "demo" =>
        \A i \in Runs :
            (demo.run[i].pc = "done" /\ \A k \in Runs \ {i} : demo.run[k].pc = "l12") =>
                \A f \in Range(DatasetFiles) :
                    demo.archivo[f] = "original" /\ demo.backup[f] = NoFile

\* two runs interleaved: one ended normally, the restore of the other found no
\* backup, and a dataset file is left with the filtered content
C28_Witness ==
    /\ pc = "demo"
    /\ \E i, k \in Runs :
          /\ demo.run[i].pc = "done"
          /\ demo.run[k].pc = "crashed"
          /\ demo.run[k].fallo = "l71"
    /\ \E f \in Range(DatasetFiles) : demo.archivo[f] = "top10"

\* -- diagnostics of the relaxed mode
\* C29: when the extraction or the writing of the duals and reduced costs
\* fails, exportar still completes: the run is at "exported" with no error,
\* and the assignment list, the per-depot summary and the total cost are the
\* ones computed before the extraction.
C29_DiagnosticoNoFatal ==
    out.diagnostico.fallo =>
        /\ cfg.relax
        /\ pc = "exported"
        /\ error = NoError
        /\ out.resultados_df = Asignaciones(self, modelo.x_keys, sol.x)
        /\ out.resumen_patios_df = ExportarDe(self, modelo, sol).resumen_patios_df
        /\ out.total_cost = ExportarDe(self, modelo, sol).total_cost

\* the extraction failed after the duals were written, and the export stands
C29_Witness ==
    /\ pc = "exported"
    /\ out.diagnostico.fallo
    /\ out.diagnostico.duales
    /\ out.resultados_df # <<>>
    /\ out.total_cost > 0

\* -- capacity check and capacity constraints
\* the depots of the model other than the overflow depot
PatiosDelModelo == Range(self.patios) \ {overflow_id}

\* C30: the total capacity that cargar_datos compares with the total demand is
\* the sum of the bounds of the capacity constraints of the real depots of the
\* model: every such depot is in the total with the bound of its constraint
\* and no other depot is counted; so when the check was made and passed and
\* every pair is compatible (no K limit), the model has a feasible point.
C30_CapacidadComparada ==
    pc = "built" =>
        /\ self.cap_total_base =
               SumFn([p \in PatiosDelModelo |-> modelo.Capacidad_Patio[p].rhs], PatiosDelModelo)
        /\ \A p \in PatiosDelModelo :
               p \in DOMAIN archivos.capacidades
               /\ self.capacidades[p] = modelo.Capacidad_Patio[p].rhs
        /\ DOMAIN archivos.capacidades \subseteq PatiosDelModelo
        /\ (/\ cfg.overflow_penalty_km = None
            /\ cfg.kmax = None
            /\ \A r \in Range(self.rutas), p \in Range(self.patios) : AGet(self.A, r, p) = 1)
           => Factibles(modelo) # {}

====
